---- MODULE Spec2Model ----
(***************************************************************************)
(* A model of the Cloudflare DNS MCP server: the bulk mutation tools       *)
(* (src/tools/records-bulk.ts), the list-records query tool                *)
(* (src/tools/records-read.ts) and the pure helpers they call              *)
(* (src/formatters/record.ts, src/utils/pagination.ts,                     *)
(* src/utils/errors.ts, src/services/cloudflare.ts).                       *)
(*                                                                         *)
(* JavaScript objects are functions from field names to values; a field    *)
(* that is undefined is a field outside the function's DOMAIN.  Arrays are *)
(* sequences (1-based here, 0-based in the source: entry k of a sequence   *)
(* is element k-1 of the array).                                           *)
(***************************************************************************)
EXTENDS Integers, Sequences, FiniteSets, TLC

VARIABLES
    apiToken,   \* process.env.CLOUDFLARE_API_TOKEN is set (BOOLEAN)
    client,     \* services/cloudflare.ts _client: "null" or "handle"
    dir,        \* the Directory: the zone's records, in the Directory's order
    calls,      \* every Directory call issued so far, in issue order
    inflight,   \* the Directory calls issued and not yet settled
    settled,    \* the Directory's answers so far: call number and outcome
    pc,         \* position of the request's handler
    req,        \* the tool request being served
    i,          \* the bulk handlers' loop index (0-based, as in the source)
    results,    \* the bulk handlers' results array
    created,    \* cf_dns_bulk_create: let created
    updated,    \* cf_dns_bulk_update: let updated
    failed,     \* both bulk handlers: let failed
    records,    \* cf_dns_list_records: the records collected from the Directory
    recordInfo, \* cf_dns_delete_record: let recordInfo
    resp,       \* the tool response
    arg,        \* arguments of a direct call of a pure helper
    ret,        \* its return value
    tasks,      \* concurrent requests: each task's handler position and locals
    mcpApiToken,  \* process.env.MCP_API_TOKEN (a string: a sequence of characters)
    apiKeyEnv,    \* process.env.CLOUDFLARE_DNS_MCP_API_KEY
    bearerToken,  \* services/auth.ts _bearerToken
    apiKey,       \* services/auth.ts _apiKey
    httpReq,      \* the HTTP request being served
    httpResp      \* the HTTP response

vars == <<apiToken, client, dir, calls, inflight, settled, pc, req, i, results,
          created, updated, failed, records, recordInfo, resp, arg, ret,
          tasks, mcpApiToken, apiKeyEnv, bearerToken, apiKey, httpReq, httpResp>>

bulkLocals == <<i, results, created, updated, failed>>
listLocals == <<records>>
writeLocals == <<recordInfo>>
pureVars == <<arg, ret>>
taskVars == <<tasks>>
httpVars == <<mcpApiToken, apiKeyEnv, bearerToken, apiKey, httpReq, httpResp>>

(***************************************************************************)
(* Bounds of the model.                                                    *)
(***************************************************************************)
MaxOps == 3        \* longest bulk batch whose items all pass the schema
MaxRecs == 3       \* longest record list handed to a helper directly
MaxN == 4          \* largest sample size handed to randomSample directly
MaxZone == 3       \* most records in the zone a list request reads
MaxPage == 2       \* largest page a list request asks for
MaxPerPage == 3    \* largest per_page a list request asks for
MaxSample == 2     \* largest sample_size a list request asks for
MaxSlack == 1      \* text lengths and newline offsets this close to a threshold
MaxTaskOps == 2    \* operations in a batch of a concurrent task
MaxBlank == 2      \* blanks between the scheme and the credential of a header

(***************************************************************************)
(* Program constants.                                                      *)
(***************************************************************************)
MaxBulk == 100
DEFAULT_PER_PAGE == 50
DEFAULT_SAMPLE_SIZE == 5
MAX_PER_PAGE == 5000
MAX_SAMPLE_SIZE == 50
CollectCapFactor == 10
SummaryThreshold == 20
CHARACTER_LIMIT == 25000
NoticeLen == 141   \* length of the truncation notice
MinApiKeyLen == 16
GeneratedKeyLen == 64

None == "none"

\* No request is being served; no response has been returned.
NoReq == [tool |-> None]

NoResp == [pending |-> TRUE]

\* No helper has been called directly.
NoCall == [fn |-> None]

\* No concurrent task is running.
NoTasks == << >>

\* An environment variable that is not set.
Unset == [set |-> FALSE]

\* The HTTP transport is not started: nothing of it is set.
HttpOff ==
    /\ mcpApiToken = Unset
    /\ apiKeyEnv = Unset
    /\ bearerToken = [checked |-> FALSE]
    /\ apiKey = << >>
    /\ httpReq = [route |-> None]
    /\ httpResp = [pending |-> TRUE]

Has(r, f) == f \in DOMAIN r

\* JavaScript truthiness of an optional field: of a string field (the empty
\* string and undefined are falsy) and of a boolean field.
TruthyStr(r, f) == Has(r, f) /\ r[f] # ""

TruthyBool(r, f) == Has(r, f) /\ r[f]

SeqsUpTo(S, n) == UNION {[1..k -> S] : k \in 1..n}

Range(s) == {s[k] : k \in DOMAIN s}

\* The object r with the fields of p written over it ({...r, ...p}).
Merge(r, p) ==
    [f \in DOMAIN r \cup DOMAIN p |-> IF f \in DOMAIN p THEN p[f] ELSE r[f]]

Empty == [f \in {} |-> None]

(***************************************************************************)
(* The Directory's failures (spec section 6) as the errors the Cloudflare  *)
(* SDK throws for them, and handleApiError's mapping to a message.         *)
(***************************************************************************)
FailureKinds ==
    {"bad-request", "unauthorized", "forbidden", "not-found", "conflict",
     "rate-limited", "connection-failure", "unknown"}

\* The thrown error: its class, and its HTTP status where it has one.  In
\* the SDK APIConnectionError is a subclass of APIError with no status.
ErrorOf(kind) ==
    CASE kind = "bad-request"        -> [cls |-> "APIError", status |-> 400]
      [] kind = "unauthorized"       -> [cls |-> "APIError", status |-> 401]
      [] kind = "forbidden"          -> [cls |-> "APIError", status |-> 403]
      [] kind = "not-found"          -> [cls |-> "APIError", status |-> 404]
      [] kind = "conflict"           -> [cls |-> "APIError", status |-> 409]
      [] kind = "rate-limited"       -> [cls |-> "APIError", status |-> 429]
      [] kind = "connection-failure" -> [cls |-> "APIConnectionError"]
      [] kind = "unknown"            -> [cls |-> "APIError", status |-> 500]

MissingTokenError == [cls |-> "Error", message |-> "CLOUDFLARE_API_TOKEN environment variable is required."]

InstanceOfAPIError(error) == error.cls \in {"APIError", "APIConnectionError"}

handleApiError(error) ==
    IF InstanceOfAPIError(error) THEN
        IF ~Has(error, "status") THEN "Error (undefined): Connection error."
        ELSE CASE error.status = 400 -> "Error (400 Bad Request)"
               [] error.status = 401 -> "Error (401 Unauthorized)"
               [] error.status = 403 -> "Error (403 Forbidden)"
               [] error.status = 404 -> "Error (404 Not Found)"
               [] error.status = 409 -> "Error (409 Conflict)"
               [] error.status = 429 -> "Error (429 Rate Limited)"
               [] OTHER              -> "Error (" \o ToString(error.status) \o ")"
    ELSE IF error.cls = "APIConnectionError" THEN "Error: Could not connect to Cloudflare API."
    ELSE "Error: " \o error.message

\* Mutant: the catch clause returns the message without the error flag.
ErrorResultUnflagged(error) == [isError |-> FALSE, text |-> handleApiError(error)]

\* The value every handler's catch clause returns.
ErrorResult(error) == [isError |-> TRUE, text |-> handleApiError(error)]

\* The MCP server checks a request against the tool's inputSchema before it
\* calls the handler; a request that fails the schema never reaches it.
InvalidParams == [isError |-> TRUE, text |-> "Input validation error"]

\* JSON.stringify(value, null, 2): the text is kept as the value it encodes.
Json(value) == [isError |-> FALSE, json |-> value]

(***************************************************************************)
(* services/cloudflare.ts: the lazily initialised client.                  *)
(***************************************************************************)
\* Mutant: the holder is not looked at, every call constructs a client.
ClientHeldNever == FALSE

\* if (_client) return _client (line 10).
ClientHeld == client # "null"

\* The call throws: no client is held and the token is missing (lines 12-18).
getClientThrows == ~ClientHeld /\ ~apiToken

\* new Cloudflare({ apiToken }) (line 20): a fresh object, named after the
\* caller whose call constructs it.
NewCloudflare(by) == "handle" \o by

\* The handle a call of getClient returns to the caller `by`, which is also
\* the holder's value after the call (lines 10, 20-21).
getClientBy(by) == IF ClientHeld THEN client ELSE NewCloudflare(by)

\* getClient() when one request is served at a time.
getClient == getClientBy("")

(***************************************************************************)
(* formatters/record.ts                                                    *)
(***************************************************************************)
\* Mutant: mail-exchange records count as proxy-eligible.
ProxyTypesWithMX == {"A", "AAAA", "CNAME", "MX"}

ProxyTypes == {"A", "AAAA", "CNAME"}

\* String(record[f] ?? "")
StringOr(record, f) == IF Has(record, f) THEN record[f] ELSE ""

\* Mutant: the concise result starts as a spread of the source record.
formatRecordSpreadsSource(record, concise) ==
    IF ~concise THEN record
    ELSE Merge(record, [id   |-> StringOr(record, "id"),
                        type |-> StringOr(record, "type"),
                        name |-> StringOr(record, "name")])

formatRecord(record, concise) ==
    IF ~concise THEN record
    ELSE
      LET type == StringOr(record, "type")
          result ==
            [id      |-> StringOr(record, "id"),
             type    |-> type,
             name    |-> StringOr(record, "name"),
             content |-> StringOr(record, "content"),
             ttl     |-> IF Has(record, "ttl")
                         THEN (IF record.ttl = 1 THEN "auto" ELSE record.ttl)
                         ELSE 0]
          proxied ==
            IF type \in ProxyTypes
            THEN [proxied |-> TruthyBool(record, "proxied")] ELSE Empty
          comment ==
            IF TruthyStr(record, "comment")
            THEN [comment |-> record.comment] ELSE Empty
          createdOn ==
            IF TruthyStr(record, "created_on")
            THEN [created_on |-> record.created_on] ELSE Empty
          modifiedOn ==
            IF TruthyStr(record, "modified_on")
            THEN [modified_on |-> record.modified_on] ELSE Empty
          mx ==
            IF type = "MX" /\ Has(record, "priority")
            THEN [priority |-> record.priority] ELSE Empty
          srv ==
            IF type = "SRV" /\ Has(record, "data")
            THEN [f \in {"priority", "weight", "port"} \cap DOMAIN record.data
                    |-> record.data[f]]
            ELSE Empty
      IN  Merge(Merge(Merge(Merge(Merge(Merge(result, proxied), comment),
                createdOn), modifiedOn), mx), srv)

formatRecords(recs, concise) ==
    [k \in DOMAIN recs |-> formatRecord(recs[k], concise)]

(***************************************************************************)
(* schemas/records.ts: the bulk tools' input schemas.                      *)
(***************************************************************************)
DNS_RECORD_TYPES ==
    {"A", "AAAA", "CAA", "CERT", "CNAME", "DNSKEY", "DS", "HTTPS", "LOC", "MX",
     "NAPTR", "NS", "PTR", "SMIMEA", "SRV", "SSHFP", "SVCB", "TLSA", "TXT", "URI"}

\* One element of BulkCreateSchema.records.
BulkCreateItemOk(rec) ==
    /\ rec.type \in DNS_RECORD_TYPES
    /\ Len(rec.name) >= 1
    /\ Len(rec.content) >= 1
    /\ Has(rec, "ttl") => rec.ttl >= 1

BulkCreateSchema(params) ==
    /\ Len(params.records) >= 1
    /\ Len(params.records) <= MaxBulk
    /\ \A k \in DOMAIN params.records : BulkCreateItemOk(params.records[k])

BulkUpdateItemOk(rec) ==
    /\ Has(rec, "record_id")
    /\ Has(rec, "ttl") => rec.ttl >= 1

BulkUpdateSchema(params) ==
    /\ Len(params.records) >= 1
    /\ Len(params.records) <= MaxBulk
    /\ \A k \in DOMAIN params.records : BulkUpdateItemOk(params.records[k])

\* The parsed request: zod fills in the default ttl of a create item.
ParseCreateItem(rec) == IF Has(rec, "ttl") THEN rec ELSE Merge(rec, [ttl |-> 1])

ParseBulkCreate(params) ==
    [params EXCEPT !.records =
        [k \in DOMAIN params.records |-> ParseCreateItem(params.records[k])]]

(***************************************************************************)
(* The Directory (the Cloudflare API behind client.dns.records).  A call   *)
(* either succeeds, applying its change and returning the record, or fails *)
(* with one of FailureKinds and changes nothing.                           *)
(***************************************************************************)
InitialZone ==
    << [id |-> "r1", type |-> "A", name |-> "www", content |-> "1.1.1.1",
        ttl |-> 1, proxied |-> TRUE],
       [id |-> "r2", type |-> "MX", name |-> "mail", content |-> "mx.example",
        ttl |-> 300, priority |-> 10] >>

DirIds(d) == {d[k].id : k \in DOMAIN d}

DirCreate(d, payload) ==
    Append(d, Merge(payload, [id |-> "r" \o ToString(Len(d) + 1)]))

DirEdit(d, id, payload) ==
    [k \in DOMAIN d |-> IF d[k].id = id THEN Merge(d[k], payload) ELSE d[k]]

DirGet(d, id) == d[CHOOSE k \in DOMAIN d : d[k].id = id]

\* The Directory after a successful call.
DirApply(d, call) ==
    CASE call.method = "create" -> DirCreate(d, call.payload)
      [] call.method = "edit"   -> DirEdit(d, call.record_id, call.payload)
      [] OTHER                  -> d

\* The record a successful call returns.
DirReturn(d, call) ==
    CASE call.method = "create" -> DirApply(d, call)[Len(d) + 1]
      [] call.method = "edit"   -> DirGet(DirApply(d, call), call.record_id)

\* The outcomes the Directory can give a call: an edit of a record the zone
\* does not hold cannot succeed.
Outcomes(d, call) ==
    IF call.method = "edit" /\ call.record_id \notin DirIds(d)
    THEN FailureKinds
    ELSE {"ok"} \cup FailureKinds

(***************************************************************************)
(* tools/records-bulk.ts                                                   *)
(***************************************************************************)
\* cf_dns_bulk_create, lines 47-57: the payload of one create.
BulkCreatePayload(rec) ==
    LET base == [type |-> rec.type, name |-> rec.name, content |-> rec.content,
                 ttl |-> rec.ttl]
        proxied  == IF Has(rec, "proxied") THEN [proxied |-> rec.proxied] ELSE Empty
        priority == IF Has(rec, "priority") THEN [priority |-> rec.priority] ELSE Empty
        comment  == IF TruthyStr(rec, "comment") THEN [comment |-> rec.comment] ELSE Empty
        tags     == IF Has(rec, "tags") THEN [tags |-> rec.tags] ELSE Empty
        data     == IF Has(rec, "data") THEN [data |-> rec.data] ELSE Empty
    IN  Merge(Merge(Merge(Merge(Merge(base, proxied), priority), comment), tags), data)

\* cf_dns_bulk_update, lines 123-130: the payload of one edit.
BulkUpdatePayload(rec) ==
    [f \in DOMAIN rec \cap
            {"content", "name", "ttl", "proxied", "comment", "tags", "data"}
        |-> rec[f]]

\* The Directory call of loop iteration idx (lines 59-62 and 132-135); seq
\* numbers the calls in the order they are issued.
BulkCall(tool, params, idx, seq) ==
    LET rec == params.records[idx + 1]
    IN  IF tool = "cf_dns_bulk_create"
        THEN [seq |-> seq, method |-> "create", index |-> idx,
              zone_id |-> params.zone_id, payload |-> BulkCreatePayload(rec)]
        ELSE [seq |-> seq, method |-> "edit", index |-> idx,
              zone_id |-> params.zone_id, record_id |-> rec.record_id,
              payload |-> BulkUpdatePayload(rec)]

\* Mutant: the call is issued without awaiting it, so the loop goes on.
AfterIssueNoAwait == "loop"

\* The handler's position once a call is issued: "await" suspends it until
\* the call settles (lines 59, 132).
AfterIssue == "await"

\* The entry pushed when the awaited call resolves (lines 64-65, 137-138).
SuccessEntry(tool, params, idx, record) ==
    LET base == [index |-> idx, success |-> TRUE,
                 record |-> formatRecord(record, TRUE)]
    IN  IF tool = "cf_dns_bulk_create" THEN base
        ELSE Merge(base, [record_id |-> params.records[idx + 1].record_id])

\* The entry pushed by the catch clause (lines 68, 141).
FailureEntry(tool, params, idx, error) ==
    LET base == [index |-> idx, success |-> FALSE,
                 error |-> handleApiError(error)]
    IN  IF tool = "cf_dns_bulk_create" THEN base
        ELSE Merge(base, [record_id |-> params.records[idx + 1].record_id])

\* Mutant: the loop gives up at the first failure.
LoopRunsUntilFailure(idx, params) == idx < Len(params.records) /\ failed = 0

\* The loop's continuation condition (lines 44, 120).
LoopRuns(idx, params) == idx < Len(params.records)

\* The value returned after the loop (lines 73-78, 146-151).
BulkResult(tool, params) ==
    IF tool = "cf_dns_bulk_create"
    THEN Json([created |-> created, failed |-> failed,
               total |-> Len(params.records), results |-> results])
    ELSE Json([updated |-> updated, failed |-> failed,
               total |-> Len(params.records), results |-> results])

\* Mutant: formatting the returned record throws, so the catch clause
\* records a failure for a call the Directory applied.
PushSuccessThrows(res, tool, params, idx, record) ==
    Append(res, FailureEntry(tool, params, idx, ErrorOf("unknown")))

\* results after the try block completed iteration idx (lines 65, 138).
PushSuccess(res, tool, params, idx, record) ==
    Append(res, SuccessEntry(tool, params, idx, record))

\* Mutant: the catch clause swallows the failure without recording it.
PushFailureDropped(res, tool, params, idx, error) == res

\* results after the catch clause of iteration idx (lines 68, 141).
PushFailure(res, tool, params, idx, error) ==
    Append(res, FailureEntry(tool, params, idx, error))

\* Mutant: the catch clause forgets failed++.
FailedNotCounted(f) == f

\* failed++ in the catch clause (lines 69, 142).
FailedAfterCatch(f) == f + 1

(***************************************************************************)
(* Requests of the bulk tools.                                             *)
(***************************************************************************)
Names == {"a", "b"}

CreateItems == [type : {"A"}, name : Names, content : {"", "1.2.3.4"}]

UpdateItems == [record_id : {"r1", "r9"}, content : {"9.9.9.9"}]

ValidCreateItems == {it \in CreateItems : BulkCreateItemOk(it)}

\* Batches of three valid records and one record with empty content.
MixedBatches ==
    {s \in [1..4 -> CreateItems] :
        Cardinality({k \in 1..4 : s[k].content = ""}) = 1}

BulkCreateInputs ==
    [zone_id : {"z1"},
     records : SeqsUpTo(ValidCreateItems, MaxOps) \cup MixedBatches
               \cup [1..1 -> CreateItems]]

\* Batches of updates, and a batch whose only item names no field to change.
BulkUpdateInputs ==
    [zone_id : {"z1"},
     records : SeqsUpTo(UpdateItems, MaxOps) \cup {<<[record_id |-> "r1"]>>}]

BulkTools == {"cf_dns_bulk_create", "cf_dns_bulk_update"}

\* The handler up to its loop (lines 31-42, 106-118).
BulkEnter(tool, params) ==
    /\ req' = [tool |-> tool, params |-> params]
    /\ IF getClientThrows
       THEN /\ resp' = ErrorResult(MissingTokenError)
            /\ pc' = "done"
            /\ UNCHANGED <<client, bulkLocals>>
       ELSE /\ client' = getClient
            /\ i' = 0
            /\ results' = << >>
            /\ created' = 0
            /\ updated' = 0
            /\ failed' = 0
            /\ pc' = "loop"
            /\ resp' = resp

BulkReject(tool, params) ==
    /\ req' = [tool |-> tool, params |-> params]
    /\ resp' = InvalidParams
    /\ pc' = "done"
    /\ UNCHANGED <<client, bulkLocals>>

BulkCreateRequest(params) ==
    /\ pc = "idle"
    /\ IF BulkCreateSchema(params)
       THEN BulkEnter("cf_dns_bulk_create", ParseBulkCreate(params))
       ELSE BulkReject("cf_dns_bulk_create", params)
    /\ UNCHANGED <<apiToken, taskVars, httpVars, dir, calls, inflight, settled, listLocals, writeLocals, pureVars>>

BulkUpdateRequest(params) ==
    /\ pc = "idle"
    /\ IF BulkUpdateSchema(params)
       THEN BulkEnter("cf_dns_bulk_update", params)
       ELSE BulkReject("cf_dns_bulk_update", params)
    /\ UNCHANGED <<apiToken, taskVars, httpVars, dir, calls, inflight, settled, listLocals, writeLocals, pureVars>>

\* One iteration's call is issued and the handler awaits it.
BulkIssue ==
    /\ pc = "loop"
    /\ req.tool \in BulkTools
    /\ LoopRuns(i, req.params)
    /\ LET call == BulkCall(req.tool, req.params, i, Len(calls) + 1)
       IN  /\ calls' = Append(calls, call)
           /\ inflight' = inflight \cup {call}
    /\ pc' = AfterIssue
    /\ UNCHANGED <<apiToken, taskVars, httpVars, client, dir, settled, req, bulkLocals, resp, listLocals, writeLocals, pureVars>>

\* The Directory settles a call in flight and the handler resumes: the try
\* block runs to its end on success, the catch clause on failure, then i++.
BulkSettle ==
    /\ req.tool \in BulkTools
    /\ \E call \in inflight :
         \E outcome \in Outcomes(dir, call) :
            /\ inflight' = inflight \ {call}
            /\ settled' = Append(settled, [seq |-> call.seq, outcome |-> outcome])
            /\ IF outcome = "ok"
               THEN /\ dir' = DirApply(dir, call)
                    /\ results' = PushSuccess(results, req.tool, req.params, i,
                                              DirReturn(dir, call))
                    /\ created' = IF req.tool = "cf_dns_bulk_create"
                                  THEN created + 1 ELSE created
                    /\ updated' = IF req.tool = "cf_dns_bulk_update"
                                  THEN updated + 1 ELSE updated
                    /\ failed' = failed
               ELSE /\ dir' = dir
                    /\ results' = PushFailure(results, req.tool, req.params, i,
                                              ErrorOf(outcome))
                    /\ failed' = FailedAfterCatch(failed)
                    /\ UNCHANGED <<created, updated>>
    /\ i' = i + 1
    /\ pc' = "loop"
    /\ UNCHANGED <<apiToken, taskVars, httpVars, client, calls, req, resp, listLocals, writeLocals, pureVars>>

\* The loop has ended: the handler returns the batch's result.
BulkReturn ==
    /\ pc = "loop"
    /\ req.tool \in BulkTools
    /\ ~LoopRuns(i, req.params)
    /\ resp' = BulkResult(req.tool, req.params)
    /\ pc' = "done"
    /\ UNCHANGED <<apiToken, taskVars, httpVars, client, dir, calls, inflight, settled, req,
                   bulkLocals, listLocals, writeLocals, pureVars>>

InitBulk ==
    /\ apiToken \in BOOLEAN
    /\ client = "null"
    /\ dir = InitialZone
    /\ calls = << >>
    /\ inflight = {}
    /\ settled = << >>
    /\ pc = "idle"
    /\ req = NoReq
    /\ i = 0
    /\ results = << >>
    /\ created = 0
    /\ updated = 0
    /\ failed = 0
    /\ records = << >>
    /\ recordInfo = None
    /\ tasks = NoTasks
    /\ HttpOff
    /\ resp = NoResp
    /\ arg = NoCall
    /\ ret = NoResp

NextBulk ==
    \/ \E params \in BulkCreateInputs : BulkCreateRequest(params)
    \/ \E params \in BulkUpdateInputs : BulkUpdateRequest(params)
    \/ BulkIssue
    \/ BulkSettle
    \/ BulkReturn

SpecBulk == InitBulk /\ [][NextBulk]_vars

(***************************************************************************)
(* Properties of the bulk mutation engine.                                 *)
(***************************************************************************)
BulkServed == pc = "done" /\ req.tool \in BulkTools

BulkRunning == pc \in {"loop", "await"} /\ req.tool \in BulkTools

\* The handler ran its loop and returned the batch's result.
BulkReturned == BulkServed /\ Has(resp, "json")

BulkSchemaOk ==
    IF req.tool = "cf_dns_bulk_create"
    THEN BulkCreateSchema(req.params) ELSE BulkUpdateSchema(req.params)

BulkN == Len(req.params.records)

Successes(res) == Cardinality({k \in DOMAIN res : res[k].success})

Failures(res) == Cardinality({k \in DOMAIN res : ~res[k].success})

\* A results entry describes the input record rec of its tool.
Describes(entry, tool, rec) ==
    /\ tool = "cf_dns_bulk_update" => entry.record_id = rec.record_id
    /\ IF entry.success
       THEN /\ Has(rec, "content") => entry.record.content = rec.content
            /\ IF tool = "cf_dns_bulk_create"
               THEN entry.record.name = rec.name /\ entry.record.type = rec.type
               ELSE entry.record.id = rec.record_id
       ELSE Has(entry, "error")

\* C1: a bulk request that passes the schema returns a results list with
\* one entry per input operation, entry k carrying index k and describing
\* input operation k, whichever Directory calls failed.
C1_ResultsInInputOrder ==
    (BulkServed /\ BulkSchemaOk /\ apiToken) =>
        /\ Has(resp, "json")
        /\ Len(resp.json.results) = BulkN
        /\ \A k \in 1..BulkN :
              /\ k \in DOMAIN resp.json.results
              /\ resp.json.results[k].index = k - 1
              /\ Describes(resp.json.results[k], req.tool, req.params.records[k])

C1_Witness ==
    /\ BulkReturned
    /\ BulkN = 3
    /\ ~resp.json.results[1].success
    /\ resp.json.results[2].success
    /\ ~resp.json.results[3].success

\* C2: after every loop iteration the success counter plus failed equals the
\* number of results recorded; the returned created (updated) and failed
\* count the entries with success true and false, and sum to total, the
\* input length.
C2_CountersMatchResults ==
    /\ (BulkRunning \/ BulkReturned) =>
          /\ created + updated + failed = Len(results)
          /\ created + updated = Successes(results)
          /\ failed = Failures(results)
          /\ req.tool = "cf_dns_bulk_create" => updated = 0
          /\ req.tool = "cf_dns_bulk_update" => created = 0
    /\ BulkReturned =>
          LET out == resp.json
              done == IF req.tool = "cf_dns_bulk_create"
                      THEN out.created ELSE out.updated
          IN  /\ done = Successes(out.results)
              /\ out.failed = Failures(out.results)
              /\ done + out.failed = out.total
              /\ out.total = BulkN

C2_Witness ==
    /\ BulkReturned
    /\ req.tool = "cf_dns_bulk_update"
    /\ resp.json.updated >= 1
    /\ resp.json.failed >= 2

\* The Directory's answer to call number seq.
OutcomeOf(seq) ==
    settled[CHOOSE j \in DOMAIN settled : settled[j].seq = seq].outcome

\* C3: a failure is recorded only in the entry of its own operation and
\* does not stop the batch: every input operation is issued to the
\* Directory exactly once, and none is issued again.
C3_EveryOperationIssuedOnce ==
    /\ req.tool \in BulkTools =>
          \A a, b \in DOMAIN calls : calls[a].index = calls[b].index => a = b
    /\ BulkReturned =>
          /\ Len(calls) = BulkN
          /\ Len(settled) = BulkN
          /\ \A k \in 1..BulkN :
                /\ calls[k] = BulkCall(req.tool, req.params, k - 1, k)
                /\ resp.json.results[k].success <=> OutcomeOf(k) = "ok"
                /\ OutcomeOf(k) # "ok" =>
                      resp.json.results[k].error
                          = handleApiError(ErrorOf(OutcomeOf(k)))

C3_Witness ==
    /\ BulkReturned
    /\ BulkN = 3
    /\ OutcomeOf(1) = "rate-limited"
    /\ OutcomeOf(2) = "connection-failure"
    /\ OutcomeOf(3) = "ok"

\* C4: at most one Directory call of a bulk invocation is in flight; calls
\* are issued in input order, each only after every earlier one settled.
C4_OneCallInFlight ==
    req.tool \in BulkTools =>
        /\ Cardinality(inflight) <= 1
        /\ \A k \in DOMAIN calls : calls[k].index = k - 1
        /\ \A c \in inflight :
              \A k \in 1..(c.seq - 1) :
                 \E j \in DOMAIN settled : settled[j].seq = k

C4_Witness ==
    /\ Cardinality(inflight) = 1
    /\ Len(settled) = 2
    /\ settled[1].outcome # "ok"
    /\ settled[2].outcome = "ok"

\* The Directory after the first k operations of the batch, applying the
\* ones the results report as successful and no other.
RECURSIVE AppliedUpTo(_)
AppliedUpTo(k) ==
    IF k = 0 THEN InitialZone
    ELSE IF results[k].success
         THEN DirApply(AppliedUpTo(k - 1), BulkCall(req.tool, req.params, k - 1, k))
         ELSE AppliedUpTo(k - 1)

DirectoryChanges == Cardinality({j \in DOMAIN settled : settled[j].outcome = "ok"})

\* C5: a batch is applied partially and never rolled back: the Directory
\* holds exactly the changes of the operations reported as successful (N - f
\* changes for f failures), no delete or compensating call is issued, and a
\* failed operation leaves the Directory as it was.
C5_PartialNoRollback ==
    /\ (BulkRunning \/ BulkReturned) =>
          /\ dir = AppliedUpTo(Len(results))
          /\ \A k \in DOMAIN calls :
                calls[k].method = IF req.tool = "cf_dns_bulk_create"
                                  THEN "create" ELSE "edit"
    /\ BulkReturned =>
          /\ Len(calls) = BulkN
          /\ DirectoryChanges = BulkN - resp.json.failed

C5_Witness ==
    /\ BulkReturned
    /\ req.tool = "cf_dns_bulk_create"
    /\ BulkN = 3
    /\ resp.json.failed = 1
    /\ Len(dir) = Len(InitialZone) + 2

\* C6: a bulk create of three valid records and one record with empty
\* content returns a batch result with total 4 whose failure is the invalid
\* item's own entry; the invalid item does not reject the whole batch.
C6_InvalidItemContained ==
    (BulkServed /\ req.tool = "cf_dns_bulk_create" /\ apiToken
        /\ req.params.records \in MixedBatches) =>
        /\ Has(resp, "json")
        /\ resp.json.total = 4
        /\ resp.json.failed >= 1
        /\ \A k \in 1..4 :
              req.params.records[k].content = "" => ~resp.json.results[k].success

(***************************************************************************)
(* formatters/record.ts: buildRecordSummary.                               *)
(***************************************************************************)
\* String(r.type ?? "UNKNOWN")
SummaryType(r) == IF Has(r, "type") THEN r.type ELSE "UNKNOWN"

\* Mutant: a record without a type is left out of the distribution.
CountTypeSkipsMissing(byType, r) ==
    IF Has(r, "type")
    THEN Merge(byType, [t \in {r.type} |->
                          (IF r.type \in DOMAIN byType THEN byType[r.type] ELSE 0) + 1])
    ELSE byType

\* byType[type] = (byType[type] ?? 0) + 1
CountType(byType, r) ==
    LET type == SummaryType(r)
    IN  Merge(byType, [t \in {type} |->
                         (IF type \in DOMAIN byType THEN byType[type] ELSE 0) + 1])

\* The loop of buildRecordSummary over the first k records.
RECURSIVE SummaryLoop(_, _)
SummaryLoop(recs, k) ==
    IF k = 0 THEN [byType |-> Empty, proxied |-> 0, dnsOnly |-> 0]
    ELSE LET acc == SummaryLoop(recs, k - 1)
             r == recs[k]
         IN  [byType  |-> CountType(acc.byType, r),
              proxied |-> IF TruthyBool(r, "proxied")
                          THEN acc.proxied + 1 ELSE acc.proxied,
              dnsOnly |-> IF TruthyBool(r, "proxied")
                          THEN acc.dnsOnly ELSE acc.dnsOnly + 1]

buildRecordSummary(recs) ==
    LET acc == SummaryLoop(recs, Len(recs))
    IN  [total      |-> Len(recs),
         by_type    |-> acc.byType,
         by_proxied |-> [proxied |-> acc.proxied, dns_only |-> acc.dnsOnly]]

(***************************************************************************)
(* utils/pagination.ts                                                     *)
(***************************************************************************)
\* Mutant: has_more is also set when the page ends exactly at total.
buildPaginationMetaInclusive(total, items, page, perPage) ==
    [total    |-> total,
     count    |-> Len(items),
     page     |-> page,
     per_page |-> perPage,
     has_more |-> page * perPage <= total]

buildPaginationMeta(total, items, page, perPage) ==
    [total    |-> total,
     count    |-> Len(items),
     page     |-> page,
     per_page |-> perPage,
     has_more |-> page * perPage < total]

\* Array.prototype.slice(from, to) for 0 <= from <= to (0-based, to excluded).
Slice(s, from, to) ==
    LET last == IF to < Len(s) THEN to ELSE Len(s)
    IN  IF from >= last THEN << >> ELSE SubSeq(s, from + 1, last)

\* [s[a], s[b]] = [s[b], s[a]] on 0-based positions a and b.
Swap(s, a, b) ==
    [k \in DOMAIN s |-> IF k = a + 1 THEN s[b + 1]
                        ELSE IF k = b + 1 THEN s[a + 1] ELSE s[k]]

\* The values Math.floor(Math.random() * (i + 1)) can take in the shuffle of
\* len items: one draw js[i] in 0..i for each i from len-1 down to 1.
\* Mutant: every draw ranges over the whole array (Math.random() * length).
RandomDrawsWholeArray(len) ==
    [1..(len - 1) -> 0..(len - 1)]

RandomDraws(len) ==
    {js \in [1..(len - 1) -> 0..(len - 1)] : \A k \in 1..(len - 1) : js[k] <= k}

\* for (let i = shuffled.length - 1; i > 0; i--) with the draws js.
RECURSIVE Shuffle(_, _, _)
Shuffle(shuffled, idx, js) ==
    IF idx <= 0 THEN shuffled
    ELSE Shuffle(Swap(shuffled, idx, js[idx]), idx - 1, js)

\* Mutant: each of the n items is drawn independently (with replacement).
randomSampleWithReplacement(items, n, js) ==
    IF n >= Len(items) THEN items
    ELSE [k \in 1..n |-> items[js[k] + 1]]

randomSample(items, n, js) ==
    IF n >= Len(items) THEN items
    ELSE Slice(Shuffle(items, Len(items) - 1, js), 0, n)

\* The caller's array once randomSample has returned: the swaps act on
\* shuffled, a fresh array filled from items (line 51), never on items.
ItemsAfterSample(items, n, js) ==
    LET heap == [items |-> items, shuffled |-> items]
        swapped == [heap EXCEPT !.shuffled = Shuffle(heap.shuffled, Len(items) - 1, js)]
    IN  IF n >= Len(items) THEN heap.items ELSE swapped.items

(***************************************************************************)
(* truncateIfNeeded.  A text is its length, the offsets of its newlines    *)
(* and whether it ends with the truncation notice; the function's result   *)
(* is text.slice(0, keep), followed by the notice when appended.           *)
(***************************************************************************)
\* Mutant: a text of exactly CHARACTER_LIMIT characters is cut as well.
WithinLimitStrict(text) == text.len < CHARACTER_LIMIT

\* text.length <= CHARACTER_LIMIT (line 34).
WithinLimit(text) == text.len <= CHARACTER_LIMIT

\* text.slice(0, CHARACTER_LIMIT).lastIndexOf("\n") (lines 36-37).
LastNewline(text) ==
    LET seen == {q \in text.newlines : q < CHARACTER_LIMIT}
    IN  IF seen = {} THEN -1
        ELSE CHOOSE q \in seen : \A o \in seen : o <= q

\* lastNewline > CHARACTER_LIMIT * 0.8 (line 38).
CleanCutTaken(lastNewline) == lastNewline * 10 > CHARACTER_LIMIT * 8

truncateIfNeeded(text) ==
    IF WithinLimit(text) THEN [keep |-> text.len, appended |-> FALSE]
    ELSE LET lastNewline == LastNewline(text)
             cleanCut == IF CleanCutTaken(lastNewline)
                         THEN lastNewline ELSE CHARACTER_LIMIT
         IN  [keep |-> cleanCut, appended |-> TRUE]

\* truncateIfNeeded(JSON.stringify(output, null, 2)): the result's text has
\* passed the size guard.
Guarded(result) == Merge(result, [sizeGuard |-> TRUE])

(***************************************************************************)
(* Direct calls of the pure helpers, on bounded inputs.                    *)
(***************************************************************************)
\* The objects holding field f with one of vals, or not holding it.
OptField(f, vals) == {Empty} \cup {[g \in {f} |-> v] : v \in vals}

\* Records as the summarizer reads them: a type or none, a proxied flag or
\* none.
SummaryRecords ==
    {Merge(t, p) : t \in OptField("type", {"A", "MX"}),
                   p \in OptField("proxied", BOOLEAN)}

SampleItems == {[id |-> "i" \o ToString(k)] : k \in 1..MaxRecs}

\* The least newline offset that is not more than a fifth short of the limit.
CleanCutFloor == (CHARACTER_LIMIT * 8) \div 10

TextLens ==
    {0, NoticeLen, CHARACTER_LIMIT + 5000}
    \cup ((CHARACTER_LIMIT - MaxSlack)..(CHARACTER_LIMIT + MaxSlack))

NewlineOffsets ==
    {0, CHARACTER_LIMIT - 500, CHARACTER_LIMIT - 1, CHARACTER_LIMIT}
    \cup ((CleanCutFloor - MaxSlack)..(CleanCutFloor + MaxSlack))

\* The newlines of the notice that ends a text of len characters.
NoticeNewlines(len) == {len - NoticeLen, len - NoticeLen + 1, len - NoticeLen + 19}

Texts ==
    {[len |-> len, newlines |-> {q \in nl : q < len}, notice |-> FALSE] :
        len \in TextLens, nl \in SUBSET NewlineOffsets}
    \cup {[len |-> len,
           newlines |-> {q \in nl : q < len - NoticeLen} \cup NoticeNewlines(len),
           notice |-> TRUE] :
              len \in {l \in TextLens : l >= NoticeLen}, nl \in SUBSET NewlineOffsets}

\* Records as the Directory returns them to formatRecord.
FormatInputs ==
    {Merge(Merge(Merge(Merge(Merge(Merge(
        [id |-> "r1", name |-> "n", content |-> "c", ttl |-> ttl],
        type), proxied), priority), data), comment), meta) :
        ttl \in {1, 300},
        type \in OptField("type", {"A", "AAAA", "CNAME", "MX", "TXT", "SRV"}),
        proxied \in OptField("proxied", BOOLEAN),
        priority \in OptField("priority", {10}),
        data \in OptField("data", {[priority |-> 1, weight |-> 2, port |-> 5060,
                                     target |-> "sip"]}),
        comment \in OptField("comment", {"note"}),
        meta \in {Empty, [created_on |-> "t0", meta |-> [auto_added |-> FALSE],
                          tags |-> "t"]}}

\* The direct calls explored: the helper and its arguments.
PureCalls ==
    {[fn |-> "buildRecordSummary", records |-> recs] :
        recs \in {<< >>} \cup SeqsUpTo(SummaryRecords, MaxRecs)}
    \cup {[fn |-> "randomSample", items |-> items, n |-> n] :
             items \in {<< >>} \cup SeqsUpTo(SampleItems, MaxRecs), n \in 1..MaxN}
    \cup {[fn |-> "truncateIfNeeded", text |-> text] : text \in Texts}
    \cup {[fn |-> "formatRecord", record |-> r, concise |-> c] :
             r \in FormatInputs, c \in BOOLEAN}

CallFormatRecord ==
    /\ arg.fn = "formatRecord"
    /\ ~Has(ret, "value")
    /\ ret' = [value |-> formatRecord(arg.record, arg.concise)]
    /\ UNCHANGED <<apiToken, taskVars, httpVars, client, dir, calls, inflight, settled, pc, req,
                   bulkLocals, listLocals, writeLocals, resp, arg>>

CallTruncateIfNeeded ==
    /\ arg.fn = "truncateIfNeeded"
    /\ ~Has(ret, "value")
    /\ ret' = [value |-> truncateIfNeeded(arg.text)]
    /\ UNCHANGED <<apiToken, taskVars, httpVars, client, dir, calls, inflight, settled, pc, req,
                   bulkLocals, listLocals, writeLocals, resp, arg>>

CallBuildRecordSummary ==
    /\ arg.fn = "buildRecordSummary"
    /\ ~Has(ret, "value")
    /\ ret' = [value |-> buildRecordSummary(arg.records)]
    /\ UNCHANGED <<apiToken, taskVars, httpVars, client, dir, calls, inflight, settled, pc, req,
                   bulkLocals, listLocals, writeLocals, resp, arg>>

\* js are the values Math.random() yields during the call.
CallRandomSample(js) ==
    /\ arg.fn = "randomSample"
    /\ ~Has(ret, "value")
    /\ ret' = [value |-> randomSample(arg.items, arg.n, js), js |-> js,
               items |-> ItemsAfterSample(arg.items, arg.n, js)]
    /\ UNCHANGED <<apiToken, taskVars, httpVars, client, dir, calls, inflight, settled, pc, req,
                   bulkLocals, listLocals, writeLocals, resp, arg>>

InitPure ==
    /\ apiToken = TRUE
    /\ client = "null"
    /\ dir = << >>
    /\ calls = << >>
    /\ inflight = {}
    /\ settled = << >>
    /\ pc = "idle"
    /\ req = NoReq
    /\ i = 0
    /\ results = << >>
    /\ created = 0
    /\ updated = 0
    /\ failed = 0
    /\ records = << >>
    /\ recordInfo = None
    /\ tasks = NoTasks
    /\ HttpOff
    /\ resp = NoResp
    /\ arg \in PureCalls
    /\ ret = NoResp

NextPure ==
    \/ CallBuildRecordSummary
    \/ CallFormatRecord
    \/ CallTruncateIfNeeded
    \/ \E js \in RandomDraws(IF arg.fn = "randomSample" THEN Len(arg.items) ELSE 0) :
          CallRandomSample(js)

SpecPure == InitPure /\ [][NextPure]_vars

(***************************************************************************)
(* Properties of the summarizer and the sampler.                           *)
(***************************************************************************)
RECURSIVE SumOver(_, _)
SumOver(f, S) ==
    IF S = {} THEN 0
    ELSE LET x == CHOOSE y \in S : TRUE
         IN  f[x] + SumOver(f, S \ {x})

\* C8: for every record list, also with records lacking a type or a proxied
\* flag, the summary's total is the list's length, the by_type counts sum
\* to total, proxied + dns_only = total, every record is counted in the
\* bucket of its type alone, and one without a type under "UNKNOWN".
C8_SummaryCountsEveryRecord ==
    (arg.fn = "buildRecordSummary" /\ Has(ret, "value")) =>
        LET recs == arg.records
            out == ret.value
            typed(t) == {k \in DOMAIN recs : Has(recs[k], "type") /\ recs[k].type = t}
            untyped == {k \in DOMAIN recs : ~Has(recs[k], "type")}
        IN  /\ out.total = Len(recs)
            /\ SumOver(out.by_type, DOMAIN out.by_type) = out.total
            /\ out.by_proxied.proxied + out.by_proxied.dns_only = out.total
            /\ \A t \in DOMAIN out.by_type \ {"UNKNOWN"} :
                  out.by_type[t] = Cardinality(typed(t))
            /\ \A k \in DOMAIN recs :
                  Has(recs[k], "type") => recs[k].type \in DOMAIN out.by_type
            /\ untyped # {} =>
                  /\ "UNKNOWN" \in DOMAIN out.by_type
                  /\ out.by_type["UNKNOWN"] = Cardinality(untyped)

C8_Witness ==
    /\ arg.fn = "buildRecordSummary"
    /\ Has(ret, "value")
    /\ Len(arg.records) = 3
    /\ ~Has(arg.records[1], "type")
    /\ ~Has(arg.records[2], "proxied")
    /\ ret.value.by_type = [UNKNOWN |-> 1, MX |-> 2]
    /\ ret.value.by_proxied = [proxied |-> 1, dns_only |-> 2]

DistinctIds(items) ==
    \A a, b \in DOMAIN items : items[a].id = items[b].id => a = b

\* C10: for a list R of records with distinct identifiers and n >= 1,
\* sample(R, n) has min(n, len(R)) records, all of them elements of R and no
\* identifier twice; for n >= len(R) the returned set is R.
C10_SampleWithoutReplacement ==
    (/\ arg.fn = "randomSample"
     /\ Has(ret, "value")
     /\ DistinctIds(arg.items)
     /\ arg.n >= 1) =>
        LET out == ret.value
            len == Len(arg.items)
        IN  /\ Len(out) = IF arg.n < len THEN arg.n ELSE len
            /\ \A k \in DOMAIN out : out[k] \in Range(arg.items)
            /\ DistinctIds(out)
            /\ arg.n >= len => Range(out) = Range(arg.items)

C10_Witness ==
    /\ arg.fn = "randomSample"
    /\ Has(ret, "value")
    /\ DistinctIds(arg.items)
    /\ Len(arg.items) = 3
    /\ arg.n = 2
    /\ ret.value = <<arg.items[3], arg.items[1]>>

(***************************************************************************)
(* schemas/records.ts, schemas/common.ts: the list tool's input schema.    *)
(***************************************************************************)
ListRecordsKeys ==
    {"zone_id", "concise", "include_details", "page", "per_page",
     "random_sample", "sample_size", "filter_type", "filter_name",
     "filter_content", "filter_proxied", "filter_comment", "filter_tag",
     "order", "summary_only"}

ListRecordsSchema(params) ==
    /\ DOMAIN params \subseteq ListRecordsKeys
    /\ Has(params, "zone_id")
    /\ Has(params, "page") => params.page >= 1
    /\ Has(params, "per_page") =>
          params.per_page >= 1 /\ params.per_page <= MAX_PER_PAGE
    /\ Has(params, "sample_size") =>
          params.sample_size >= 1 /\ params.sample_size <= MAX_SAMPLE_SIZE
    /\ Has(params, "filter_type") => params.filter_type \in DNS_RECORD_TYPES
    /\ Has(params, "order") =>
          params.order \in {"type", "name", "content", "ttl", "proxied"}

\* The defaults zod fills in.
ListDefaults ==
    [concise |-> TRUE, include_details |-> FALSE, page |-> 1,
     per_page |-> DEFAULT_PER_PAGE, random_sample |-> FALSE,
     sample_size |-> DEFAULT_SAMPLE_SIZE, summary_only |-> FALSE]

ParseListRecords(params) == Merge(ListDefaults, params)

(***************************************************************************)
(* The Directory's list operation: the records matching the query's        *)
(* filters, one page of them per call.                                     *)
(***************************************************************************)
DirMatches(r, query) ==
    /\ Has(query, "type") => (Has(r, "type") /\ r.type = query.type)
    /\ Has(query, "proxied") => (TruthyBool(r, "proxied") <=> query.proxied)
    /\ Has(query, "tag") => (Has(r, "tags") /\ query.tag \in Range(r.tags))

DirMatching(d, query) ==
    LET Test(r) == DirMatches(r, query)
    IN  SelectSeq(d, Test)

\* The strings of the modelled zones, in the order of their code units.
Alphabetical ==
    <<"1 2 5060 sip", "1.1.1.1", "A", "MX", "SRV", "_sip", "c", "mail",
      "mx.example", "n1", "n2", "n3", "www">>

\* The position of a record in the ascending order of one of its fields.
OrderKey(r, field) ==
    IF field = "ttl" THEN r.ttl
    ELSE IF field = "proxied" THEN (IF TruthyBool(r, "proxied") THEN 1 ELSE 0)
    ELSE CHOOSE k \in DOMAIN Alphabetical : Alphabetical[k] = r[field]

\* recs with r inserted behind the records that do not come after it.
InsertByKey(recs, r, field) ==
    LET before == {k \in DOMAIN recs : OrderKey(recs[k], field) <= OrderKey(r, field)}
        at == IF before = {} THEN 0 ELSE CHOOSE k \in before : \A o \in before : o <= k
    IN  SubSeq(recs, 1, at) \o <<r>> \o SubSeq(recs, at + 1, Len(recs))

\* The stable ascending sort of recs by a field.
RECURSIVE SortedBy(_, _)
SortedBy(recs, field) ==
    IF recs = << >> THEN << >>
    ELSE InsertByKey(SortedBy(SubSeq(recs, 1, Len(recs) - 1), field),
                     recs[Len(recs)], field)

DirList(d, query) ==
    LET matching == DirMatching(d, query)
        ordered == IF Has(query, "order") THEN SortedBy(matching, query.order)
                   ELSE matching
    IN  Slice(ordered, (query.page - 1) * query.per_page,
              query.page * query.per_page)

\* Server-side filtering and ordering are best-effort: the Directory
\* applies the type, proxy and substring filters, and may or may not apply
\* a tag filter and a requested order.
DirHonoured(query) ==
    {[f \in DOMAIN query \ dropped |-> query[f]] :
        dropped \in SUBSET (DOMAIN query \cap {"tag", "order"})}

\* The answers the Directory can give to a list call.
DirListAnswers(d, query) == {DirList(d, q) : q \in DirHonoured(query)}

(***************************************************************************)
(* tools/records-read.ts: cf_dns_list_records.                             *)
(***************************************************************************)
\* queryParams (lines 48-58).
ListQueryParams(params) ==
    LET base == [page |-> params.page, per_page |-> params.per_page]
        type == IF TruthyStr(params, "filter_type")
                THEN [type |-> params.filter_type] ELSE Empty
        name == IF TruthyStr(params, "filter_name")
                THEN [f \in {"name.contains"} |-> params.filter_name] ELSE Empty
        content == IF TruthyStr(params, "filter_content")
                   THEN [f \in {"content.contains"} |-> params.filter_content]
                   ELSE Empty
        proxied == IF Has(params, "filter_proxied")
                   THEN [proxied |-> params.filter_proxied] ELSE Empty
        comment == IF TruthyStr(params, "filter_comment")
                   THEN [f \in {"comment.contains"} |-> params.filter_comment]
                   ELSE Empty
        tag == IF TruthyStr(params, "filter_tag")
               THEN [tag |-> params.filter_tag] ELSE Empty
        order == IF TruthyStr(params, "order")
                 THEN [order |-> params.order] ELSE Empty
    IN  Merge(Merge(Merge(Merge(Merge(Merge(Merge(base, type), name), content),
              proxied), comment), tag), order)

\* client.dns.records.list({zone_id, ...queryParams}) (lines 61-64) and the
\* requests the page iterator makes after it: the SDK asks for the page
\* after the one it holds, with the same query.
ListCall(params, page, seq) ==
    [seq |-> seq, method |-> "list", zone_id |-> params.zone_id,
     query |-> Merge(ListQueryParams(params), [page |-> page])]

\* The break condition of the collecting loop (line 70).
CapReached(recs, params) ==
    /\ Len(recs) >= params.per_page * CollectCapFactor
    /\ ~params.summary_only
    /\ ~params.random_sample

\* for await (const record of page) over the items of one fetched page,
\* from item k on (lines 67-71): the records collected and whether the loop
\* broke.
RECURSIVE CollectLoop(_, _, _, _)
CollectLoop(recs, items, k, params) ==
    IF k > Len(items) THEN [records |-> recs, broke |-> FALSE]
    ELSE LET pushed == Append(recs, items[k])
         IN  IF CapReached(pushed, params)
             THEN [records |-> pushed, broke |-> TRUE]
             ELSE CollectLoop(pushed, items, k + 1, params)

\* Mutant: the sample flag is looked at before the summary flag.
ListModeSampleFirst(params) ==
    IF params.random_sample THEN "sample"
    ELSE IF params.summary_only THEN "summary"
    ELSE "paginated"

\* The order of the mode checks (lines 76, 84, 96).
ListMode(params) ==
    IF params.summary_only THEN "summary"
    ELSE IF params.random_sample THEN "sample"
    ELSE "paginated"

\* The handler from line 73 on: the response for the collected records.
ListResponse(params, recs, js) ==
    LET concise == IF params.include_details THEN FALSE ELSE params.concise
        total == Len(recs)
        mode == ListMode(params)
    IN  IF mode = "summary"
        THEN Json([summary |-> buildRecordSummary(recs)])
        ELSE IF mode = "sample"
        THEN LET sampled == randomSample(recs, params.sample_size, js)
                 formatted == formatRecords(sampled, concise)
             IN  Guarded(Json(
                   [sample  |-> [total_in_zone |-> total,
                                 sample_size |-> Len(formatted)],
                    records |-> formatted]))
        ELSE LET start == (params.page - 1) * params.per_page
                 paged == Slice(recs, start, start + params.per_page)
                 formatted == formatRecords(paged, concise)
                 pagination == buildPaginationMeta(total, formatted, params.page,
                                                   params.per_page)
                 summary == IF total > SummaryThreshold
                            THEN [summary |-> buildRecordSummary(recs)]
                            ELSE Empty
             IN  Guarded(Json(
                   Merge(Merge([pagination |-> pagination], summary),
                         [records |-> formatted])))

\* The number of draw sequences for which the sample of arg.items is the set S.
WaysToSample(S) ==
    Cardinality({js \in RandomDraws(Len(arg.items)) :
                    Range(randomSample(arg.items, arg.n, js)) = S})

\* C11: for a list R of distinct records and 1 <= n < len(R), every subset
\* of R of size n is the sample for the same number of draw sequences (each
\* j drawn from 0..i), and R itself is as it was after the call.
C11_SampleUniformOnCopy ==
    (/\ arg.fn = "randomSample"
     /\ Has(ret, "value")
     /\ DistinctIds(arg.items)
     /\ arg.n < Len(arg.items)) =>
        /\ \A S, T \in {U \in SUBSET Range(arg.items) : Cardinality(U) = arg.n} :
              WaysToSample(S) = WaysToSample(T) /\ WaysToSample(S) > 0
        /\ ret.items = arg.items

C11_Witness ==
    /\ arg.fn = "randomSample"
    /\ Has(ret, "value")
    /\ DistinctIds(arg.items)
    /\ Len(arg.items) = 3
    /\ arg.n = 2
    /\ ret.value = <<arg.items[2], arg.items[3]>>
    /\ ret.items = arg.items
    /\ WaysToSample({arg.items[1], arg.items[2]}) = 2

(***************************************************************************)
(* Requests of the list tool and the zones they read.                      *)
(***************************************************************************)
ZoneKinds ==
    {[type |-> "A", proxied |-> TRUE],
     [type |-> "MX", proxied |-> FALSE, priority |-> 10]}

\* The zone whose k-th record is of kind kinds[k].
ZoneOf(kinds) ==
    [k \in DOMAIN kinds |->
        Merge(kinds[k], [id |-> "r" \o ToString(k), name |-> "n" \o ToString(k),
                         content |-> "c", ttl |-> 1])]

\* A zone just large enough for a page to carry the summary (line 103).
BigZone == ZoneOf([k \in 1..(SummaryThreshold + 1) |-> [type |-> "A", proxied |-> TRUE]])

Zones ==
    {ZoneOf(kinds) : kinds \in {<< >>} \cup SeqsUpTo(ZoneKinds, MaxZone)}
    \cup {BigZone}

ListModes ==
    {Empty, [summary_only |-> TRUE]}
    \cup {[random_sample |-> TRUE, sample_size |-> n] : n \in 1..MaxSample}
    \cup {[summary_only |-> TRUE, random_sample |-> TRUE, sample_size |-> n] :
             n \in 1..MaxSample}

ListInputs ==
    {Merge(Merge([zone_id |-> "z1", page |-> pg, per_page |-> pp], mode), filter) :
        pg \in 0..MaxPage, pp \in 1..MaxPerPage, mode \in ListModes,
        filter \in OptField("filter_type", {"A", "MX"})}

ListTool == "cf_dns_list_records"

\* The requests explored against the zone d: the shuffles of a zone larger
\* than MaxZone are too many to enumerate, so such a zone is not sampled.
Explored(d, params) ==
    Len(d) <= MaxZone \/ Has(params, "summary_only") \/ ~Has(params, "random_sample")

\* The handler up to its first await (lines 43-64).
ListRecordsRequest(params) ==
    /\ pc = "idle"
    /\ IF ~ListRecordsSchema(params)
       THEN /\ req' = [tool |-> ListTool, params |-> params]
            /\ resp' = InvalidParams
            /\ pc' = "done"
            /\ UNCHANGED <<client, calls, inflight>>
       ELSE /\ req' = [tool |-> ListTool, params |-> ParseListRecords(params)]
            /\ IF getClientThrows
               THEN /\ resp' = ErrorResult(MissingTokenError)
                    /\ pc' = "done"
                    /\ UNCHANGED <<client, calls, inflight>>
               ELSE LET parsed == ParseListRecords(params)
                        call == ListCall(parsed, parsed.page, Len(calls) + 1)
                    IN  /\ client' = getClient
                        /\ calls' = Append(calls, call)
                        /\ inflight' = {call}
                        /\ pc' = "fetch"
                        /\ resp' = resp
    /\ records' = << >>
    /\ UNCHANGED <<apiToken, taskVars, httpVars, dir, settled, bulkLocals, writeLocals, pureVars>>

\* The Directory answers the page request in flight and the handler
\* resumes: a failure ends the request in the catch clause (lines 113-118);
\* a page's records are collected (lines 67-71) and, unless the loop broke
\* or the page was empty, the iterator asks for the next page; otherwise the
\* handler runs on to its return (lines 73-112).
ListRecordsSettle ==
    /\ pc = "fetch"
    /\ req.tool = ListTool
    /\ \E call \in inflight :
         \E outcome \in {"ok"} \cup FailureKinds :
            /\ settled' = Append(settled, [seq |-> call.seq, outcome |-> outcome])
            /\ IF outcome # "ok"
               THEN /\ resp' = ErrorResult(ErrorOf(outcome))
                    /\ pc' = "done"
                    /\ inflight' = {}
                    /\ UNCHANGED <<calls, records>>
               ELSE \E items \in DirListAnswers(dir, call.query) :
                    LET got == CollectLoop(records, items, 1, req.params)
                    IN  /\ records' = got.records
                        /\ IF got.broke \/ items = << >>
                           THEN /\ \E js \in RandomDraws(
                                        IF /\ ListMode(req.params) = "sample"
                                           /\ req.params.sample_size < Len(got.records)
                                        THEN Len(got.records) ELSE 0) :
                                      resp' = ListResponse(req.params, got.records, js)
                                /\ pc' = "done"
                                /\ inflight' = {}
                                /\ calls' = calls
                           ELSE LET next == ListCall(req.params, call.query.page + 1,
                                                     Len(calls) + 1)
                                IN  /\ calls' = Append(calls, next)
                                    /\ inflight' = {next}
                                    /\ pc' = "fetch"
                                    /\ resp' = resp
    /\ UNCHANGED <<apiToken, taskVars, httpVars, client, dir, req, bulkLocals, writeLocals, pureVars>>

InitList ==
    /\ apiToken \in BOOLEAN
    /\ client = "null"
    /\ dir \in Zones
    /\ calls = << >>
    /\ inflight = {}
    /\ settled = << >>
    /\ pc = "idle"
    /\ req = NoReq
    /\ i = 0
    /\ results = << >>
    /\ created = 0
    /\ updated = 0
    /\ failed = 0
    /\ records = << >>
    /\ recordInfo = None
    /\ tasks = NoTasks
    /\ HttpOff
    /\ resp = NoResp
    /\ arg = NoCall
    /\ ret = NoResp

NextList ==
    \/ \E params \in ListInputs : Explored(dir, params) /\ ListRecordsRequest(params)
    \/ ListRecordsSettle

SpecList == InitList /\ [][NextList]_vars

(***************************************************************************)
(* Properties of the list tool.                                            *)
(***************************************************************************)
ListReturned == pc = "done" /\ req.tool = ListTool /\ Has(resp, "json")

\* C7: list-records returns one envelope form, chosen by summary > sample >
\* paginated: summary_only wins over random_sample, random_sample alone
\* gives the sample form, neither gives the paginated form; the summary form
\* holds no records and the sample form no pagination block.
C7_ModePrecedence ==
    ListReturned =>
        LET keys == DOMAIN resp.json
            p == req.params
        IN  /\ p.summary_only => keys = {"summary"}
            /\ (~p.summary_only /\ p.random_sample) => keys = {"sample", "records"}
            /\ (~p.summary_only /\ ~p.random_sample) =>
                  keys \in {{"pagination", "records"},
                            {"pagination", "summary", "records"}}

C7_Witness ==
    /\ ListReturned
    /\ req.params.summary_only
    /\ req.params.random_sample
    /\ DOMAIN resp.json = {"summary"}
    /\ resp.json.summary.total = 3

\* The number of the zone's records that match the request's filter.
MatchCount ==
    Cardinality({k \in DOMAIN dir :
        Has(req.params, "filter_type") => dir[k].type = req.params.filter_type})

\* C9: in summary and in sample mode the reported total is the number of
\* all the zone's records matching the filter, for every page and per_page.
C9_TotalsCoverTheMatchingSet ==
    ListReturned =>
        /\ ListMode(req.params) = "summary" =>
              resp.json.summary.total = MatchCount
        /\ ListMode(req.params) = "sample" =>
              resp.json.sample.total_in_zone = MatchCount

\* The identifiers of a list of records, in order.
Ids(recs) == [k \in DOMAIN recs |-> recs[k].id]

\* The zone's records that match the request's filters, in zone order.
Matching == DirMatching(dir, ListQueryParams(req.params))

\* C12: in paginated mode the records returned are the records at positions
\* [(page-1)*per_page, page*per_page) of the zone's filtered sequence.
C12_PageIsSliceOfMatching ==
    (ListReturned /\ ListMode(req.params) = "paginated") =>
        Ids(resp.json.records) =
            Ids(Slice(Matching, (req.params.page - 1) * req.params.per_page,
                      req.params.page * req.params.per_page))

\* The list request ran to its end with every Directory call answered.
ListAnswered ==
    /\ pc = "done"
    /\ req.tool = ListTool
    /\ settled # << >>
    /\ \A k \in DOMAIN settled : settled[k].outcome = "ok"

\* C13: the pagination block has has_more = (page*per_page < total) and
\* count = the number of records on the page; a page beyond the last one
\* is answered without error, with count 0 and no records.
C13_PaginationMeta ==
    /\ (ListReturned /\ ListMode(req.params) = "paginated") =>
          LET meta == resp.json.pagination
          IN  /\ meta.page = req.params.page
              /\ meta.per_page = req.params.per_page
              /\ meta.has_more = (meta.page * meta.per_page < meta.total)
              /\ meta.count = Len(resp.json.records)
    /\ (/\ ListAnswered
        /\ ListMode(req.params) = "paginated"
        /\ (req.params.page - 1) * req.params.per_page >= Len(Matching)) =>
          /\ Has(resp, "json")
          /\ resp.json.pagination.count = 0
          /\ resp.json.records = << >>

C13_Witness ==
    /\ ListAnswered
    /\ ListMode(req.params) = "paginated"
    /\ Len(Matching) = 2
    /\ req.params.page = 2
    /\ req.params.per_page = 2
    /\ Has(resp, "json")
    /\ resp.json.pagination.count = 0
    /\ ~resp.json.pagination.has_more

(***************************************************************************)
(* Properties of the size guard.                                           *)
(***************************************************************************)
Truncated == arg.fn = "truncateIfNeeded" /\ Has(ret, "value")

\* The returned text ends with the notice: it was appended, or the text
\* came back whole and ended with it already.
EndsWithNotice ==
    ret.value.appended \/ (ret.value.keep = arg.text.len /\ arg.text.notice)

\* C15 as stated: a text within the 25,000 budget comes back unchanged, a
\* longer one as a prefix of at most 25,000 characters plus the notice, and
\* the output ends with the notice exactly when the input exceeded the
\* budget.
C15_EndsWithNoticeIffOver ==
    Truncated =>
        /\ arg.text.len <= CHARACTER_LIMIT =>
              ret.value = [keep |-> arg.text.len, appended |-> FALSE]
        /\ arg.text.len > CHARACTER_LIMIT =>
              ret.value.keep <= CHARACTER_LIMIT /\ ret.value.appended
        /\ EndsWithNotice <=> arg.text.len > CHARACTER_LIMIT

\* C15 amended: a text within the 25,000 budget comes back unchanged, a
\* longer one as a prefix of at most 25,000 characters plus the notice; the
\* notice is appended exactly when the input exceeded the budget, and the
\* output ends with it exactly when the input exceeded the budget or ended
\* with the notice itself.
C15_NoticeAppendedIffOver ==
    Truncated =>
        /\ arg.text.len <= CHARACTER_LIMIT =>
              ret.value = [keep |-> arg.text.len, appended |-> FALSE]
        /\ arg.text.len > CHARACTER_LIMIT =>
              /\ ret.value.keep <= CHARACTER_LIMIT
              /\ ret.value.keep <= arg.text.len
              /\ ret.value.appended
        /\ ret.value.appended <=> arg.text.len > CHARACTER_LIMIT
        /\ EndsWithNotice <=> (arg.text.len > CHARACTER_LIMIT \/ arg.text.notice)

C15_Witness ==
    /\ Truncated
    /\ arg.text.len = CHARACTER_LIMIT + 5000
    /\ LastNewline(arg.text) = CHARACTER_LIMIT - 500
    /\ ~arg.text.notice
    /\ ret.value = [keep |-> CHARACTER_LIMIT - 500, appended |-> TRUE]

\* C16: a text over the budget B is cut at its last newline within the
\* first B characters if and only if that keeps at least 0.8*B characters,
\* a last newline at offset exactly 0.8*B included; otherwise it is cut at
\* exactly B characters.
C16_CleanCutFromFourFifths ==
    (Truncated /\ arg.text.len > CHARACTER_LIMIT) =>
        LET lastNewline == LastNewline(arg.text)
        IN  IF lastNewline >= 0 /\ lastNewline * 10 >= CHARACTER_LIMIT * 8
            THEN ret.value.keep = lastNewline
            ELSE ret.value.keep = CHARACTER_LIMIT

\* C14: in each of the three list-records modes the returned text is what
\* the size guard made of the serialized output.
C14_EveryListTextGuarded ==
    ListReturned => Has(resp, "sizeGuard")

(***************************************************************************)
(* The single-record tools: cf_dns_get_record (tools/records-read.ts) and  *)
(* cf_dns_delete_record (tools/records-write.ts).                          *)
(***************************************************************************)
DirDelete(d, id) ==
    LET Kept(r) == r.id # id
    IN  SelectSeq(d, Kept)

\* The outcomes the Directory can give a call on one record: a record the
\* zone does not hold can be neither read nor deleted.
RecordOutcomes(d, call) ==
    IF call.record_id \notin DirIds(d) THEN FailureKinds
    ELSE {"ok"} \cup FailureKinds

RecordCall(method, params, seq) ==
    [seq |-> seq, method |-> method, record_id |-> params.record_id,
     zone_id |-> params.zone_id]

\* GetRecordSchema (schemas/records.ts:55-59).
GetRecordSchema(params) ==
    /\ DOMAIN params \subseteq {"zone_id", "record_id", "concise", "include_details"}
    /\ Has(params, "zone_id")
    /\ Has(params, "record_id")

ParseGetRecord(params) ==
    Merge([concise |-> TRUE, include_details |-> FALSE], params)

\* Mutant: include_details is not looked at.
OutputConciseIgnoresDetails(params) == params.concise

\* const concise = params.include_details ? false : params.concise
OutputConcise(params) == IF params.include_details THEN FALSE ELSE params.concise

GetTool == "cf_dns_get_record"

\* The get handler up to its await (records-read.ts:138-145).
GetRecordRequest(params) ==
    /\ pc = "idle"
    /\ IF ~GetRecordSchema(params)
       THEN /\ req' = [tool |-> GetTool, params |-> params]
            /\ resp' = InvalidParams
            /\ pc' = "done"
            /\ UNCHANGED <<client, calls, inflight>>
       ELSE /\ req' = [tool |-> GetTool, params |-> ParseGetRecord(params)]
            /\ IF getClientThrows
               THEN /\ resp' = ErrorResult(MissingTokenError)
                    /\ pc' = "done"
                    /\ UNCHANGED <<client, calls, inflight>>
               ELSE LET call == RecordCall("get", params, Len(calls) + 1)
                    IN  /\ client' = getClient
                        /\ calls' = Append(calls, call)
                        /\ inflight' = {call}
                        /\ pc' = "get"
                        /\ resp' = resp
    /\ UNCHANGED <<apiToken, taskVars, httpVars, dir, settled, bulkLocals, listLocals, writeLocals,
                   pureVars>>

\* The Directory answers and the get handler returns (lines 147-156).
GetRecordSettle ==
    /\ pc = "get"
    /\ req.tool = GetTool
    /\ \E call \in inflight :
         \E outcome \in RecordOutcomes(dir, call) :
            /\ settled' = Append(settled, [seq |-> call.seq, outcome |-> outcome])
            /\ resp' = IF outcome = "ok"
                       THEN Json([record |->
                               formatRecord(DirGet(dir, call.record_id),
                                            OutputConcise(req.params))])
                       ELSE ErrorResult(ErrorOf(outcome))
    /\ inflight' = {}
    /\ pc' = "done"
    /\ UNCHANGED <<apiToken, taskVars, httpVars, client, dir, calls, req, bulkLocals, listLocals,
                   writeLocals, pureVars>>

\* DeleteRecordSchema (schemas/records.ts:159-167): confirm is z.literal(true).
DeleteRecordSchema(params) ==
    /\ DOMAIN params \subseteq {"zone_id", "record_id", "confirm"}
    /\ Has(params, "zone_id")
    /\ Has(params, "record_id")
    /\ Has(params, "confirm")
    /\ params.confirm = TRUE

\* Mutant: confirm: z.boolean().default(true).
ParseDeleteRecordDefaultTrue(params) ==
    IF /\ DOMAIN params \subseteq {"zone_id", "record_id", "confirm"}
       /\ Has(params, "zone_id")
       /\ Has(params, "record_id")
    THEN [success |-> TRUE, data |-> Merge([confirm |-> TRUE], params)]
    ELSE [success |-> FALSE]

\* The schema applied to a request: the parsed input, or a failure.
ParseDeleteRecord(params) ==
    IF DeleteRecordSchema(params) THEN [success |-> TRUE, data |-> params]
    ELSE [success |-> FALSE]

DeleteTool == "cf_dns_delete_record"

DeleteAborted ==
    [isError |-> TRUE,
     text |-> "Delete aborted. You must set confirm=true to permanently delete a DNS record."]

\* String(x) inside a template literal.
TemplateOf(r, f) == IF Has(r, f) THEN r[f] ELSE "undefined"

\* The delete handler up to its first await (records-write.ts:162-182).
DeleteRecordRequest(params) ==
    /\ pc = "idle"
    /\ req' = [tool |-> DeleteTool, params |-> params]
    /\ LET parsed == ParseDeleteRecord(params)
       IN  IF ~parsed.success
           THEN /\ resp' = InvalidParams
                /\ pc' = "done"
                /\ UNCHANGED <<client, calls, inflight>>
           ELSE IF ~TruthyBool(parsed.data, "confirm")
           THEN /\ resp' = DeleteAborted
                /\ pc' = "done"
                /\ UNCHANGED <<client, calls, inflight>>
           ELSE IF getClientThrows
           THEN /\ resp' = ErrorResult(MissingTokenError)
                /\ pc' = "done"
                /\ UNCHANGED <<client, calls, inflight>>
           ELSE LET call == RecordCall("get", parsed.data, Len(calls) + 1)
                IN  /\ client' = getClient
                    /\ calls' = Append(calls, call)
                    /\ inflight' = {call}
                    /\ pc' = "lookup"
                    /\ resp' = resp
    /\ UNCHANGED <<apiToken, taskVars, httpVars, dir, settled, bulkLocals, listLocals, writeLocals,
                   pureVars>>

\* Mutant: the lookup is not wrapped in a try block of its own.
LookupEscapesOnFailure(outcome) == outcome # "ok"

\* Whether a failure of the lookup leaves the inner try block: its catch
\* clause has no condition and does not rethrow (lines 186-188).
LookupEscapes(outcome) == FALSE

\* The lookup settles: its failure is swallowed by the inner catch, and the
\* delete call is issued either way (lines 183-191).
DeleteRecordLookup ==
    /\ pc = "lookup"
    /\ req.tool = DeleteTool
    /\ \E call \in inflight :
         \E outcome \in RecordOutcomes(dir, call) :
            /\ settled' = Append(settled, [seq |-> call.seq, outcome |-> outcome])
            /\ IF LookupEscapes(outcome)
               THEN /\ resp' = ErrorResult(ErrorOf(outcome))
                    /\ pc' = "done"
                    /\ inflight' = {}
                    /\ UNCHANGED <<calls, recordInfo>>
               ELSE /\ recordInfo' =
                          IF outcome = "ok"
                          THEN LET r == DirGet(dir, call.record_id)
                               IN  TemplateOf(r, "type") \o " " \o TemplateOf(r, "name")
                                      \o " -> " \o TemplateOf(r, "content")
                          ELSE req.params.record_id
                    /\ LET next == RecordCall("delete", req.params, Len(calls) + 1)
                       IN  /\ calls' = Append(calls, next)
                           /\ inflight' = {next}
                    /\ pc' = "delete"
                    /\ resp' = resp
    /\ UNCHANGED <<apiToken, taskVars, httpVars, client, dir, req, bulkLocals,
                   listLocals, pureVars>>

\* The delete call settles and the handler returns (lines 193-207).
DeleteRecordSettle ==
    /\ pc = "delete"
    /\ req.tool = DeleteTool
    /\ \E call \in inflight :
         \E outcome \in RecordOutcomes(dir, call) :
            /\ settled' = Append(settled, [seq |-> call.seq, outcome |-> outcome])
            /\ IF outcome = "ok"
               THEN /\ dir' = DirDelete(dir, call.record_id)
                    /\ resp' = Json([deleted |-> TRUE,
                                     record_id |-> req.params.record_id,
                                     was |-> recordInfo])
               ELSE /\ dir' = dir
                    /\ resp' = ErrorResult(ErrorOf(outcome))
    /\ inflight' = {}
    /\ pc' = "done"
    /\ UNCHANGED <<apiToken, taskVars, httpVars, client, calls, req, bulkLocals, listLocals,
                   writeLocals, pureVars>>

(***************************************************************************)
(* cf_dns_create_record and cf_dns_update_record (tools/records-write.ts). *)
(***************************************************************************)
\* CreateRecordSchema (schemas/records.ts:69-114).
CreateRecordSchema(params) ==
    /\ DOMAIN params \subseteq
          {"zone_id", "type", "name", "content", "ttl", "proxied", "priority",
           "comment", "tags", "data"}
    /\ {"zone_id", "type", "name", "content"} \subseteq DOMAIN params
    /\ params.type \in DNS_RECORD_TYPES
    /\ Len(params.name) >= 1
    /\ Len(params.content) >= 1
    /\ Has(params, "ttl") => params.ttl >= 1
    /\ Has(params, "priority") => params.priority \in 0..65535
    /\ Has(params, "comment") => Len(params.comment) <= 100

\* The parsed request: zod fills in the default ttl.
ParseCreateRecord(params) == Merge([ttl |-> 1], params)

\* The create payload (records-write.ts:45-56).
CreatePayload(params) ==
    LET base == [type |-> params.type, name |-> params.name,
                 content |-> params.content, ttl |-> params.ttl]
        proxied  == IF Has(params, "proxied") THEN [proxied |-> params.proxied] ELSE Empty
        priority == IF Has(params, "priority") THEN [priority |-> params.priority] ELSE Empty
        comment  == IF TruthyStr(params, "comment") THEN [comment |-> params.comment] ELSE Empty
        tags     == IF Has(params, "tags") THEN [tags |-> params.tags] ELSE Empty
        data     == IF Has(params, "data") THEN [data |-> params.data] ELSE Empty
    IN  Merge(Merge(Merge(Merge(Merge(base, proxied), priority), comment), tags), data)

\* client.dns.records.create({zone_id, ...payload}) (lines 58-61).
CreateCall(params, seq) ==
    [seq |-> seq, method |-> "create", zone_id |-> params.zone_id,
     payload |-> CreatePayload(params)]

CreateTool == "cf_dns_create_record"

\* The create handler up to its await (lines 40-61).
CreateRecordRequest(params) ==
    /\ pc = "idle"
    /\ IF ~CreateRecordSchema(params)
       THEN /\ req' = [tool |-> CreateTool, params |-> params]
            /\ resp' = InvalidParams
            /\ pc' = "done"
            /\ UNCHANGED <<client, calls, inflight>>
       ELSE /\ req' = [tool |-> CreateTool, params |-> ParseCreateRecord(params)]
            /\ IF getClientThrows
               THEN /\ resp' = ErrorResult(MissingTokenError)
                    /\ pc' = "done"
                    /\ UNCHANGED <<client, calls, inflight>>
               ELSE LET call == CreateCall(ParseCreateRecord(params), Len(calls) + 1)
                    IN  /\ client' = getClient
                        /\ calls' = Append(calls, call)
                        /\ inflight' = {call}
                        /\ pc' = "create"
                        /\ resp' = resp
    /\ UNCHANGED <<apiToken, taskVars, httpVars, dir, settled, bulkLocals,
                   listLocals, writeLocals, pureVars>>

\* The Directory answers and the create handler returns (lines 63-75).
CreateRecordSettle ==
    /\ pc = "create"
    /\ req.tool = CreateTool
    /\ \E call \in inflight :
         \E outcome \in Outcomes(dir, call) :
            /\ settled' = Append(settled, [seq |-> call.seq, outcome |-> outcome])
            /\ IF outcome = "ok"
               THEN /\ dir' = DirApply(dir, call)
                    /\ resp' = Json([created |-> TRUE,
                                     record |-> formatRecord(DirReturn(dir, call), TRUE)])
               ELSE /\ dir' = dir
                    /\ resp' = ErrorResult(ErrorOf(outcome))
    /\ inflight' = {}
    /\ pc' = "done"
    /\ UNCHANGED <<apiToken, taskVars, httpVars, client, calls, req, bulkLocals,
                   listLocals, writeLocals, pureVars>>

\* UpdateRecordSchema (schemas/records.ts:120-153).
UpdateRecordSchema(params) ==
    /\ DOMAIN params \subseteq
          {"zone_id", "record_id", "content", "name", "ttl", "proxied",
           "comment", "tags", "data"}
    /\ {"zone_id", "record_id"} \subseteq DOMAIN params
    /\ Has(params, "ttl") => params.ttl >= 1
    /\ Has(params, "comment") => Len(params.comment) <= 100

UpdatableFields == {"content", "name", "ttl", "proxied", "comment", "tags", "data"}

\* Mutant: a field is copied into the patch only when its value is truthy.
UpdatePayloadTruthy(params) ==
    [f \in {g \in DOMAIN params \cap UpdatableFields :
               IF g \in {"content", "name", "comment"} THEN TruthyStr(params, g)
               ELSE IF g = "proxied" THEN TruthyBool(params, g)
               ELSE TRUE} |-> params[f]]

\* The patch payload (records-write.ts:103-110): the fields that are not
\* undefined.
UpdatePayload(params) ==
    [f \in DOMAIN params \cap UpdatableFields |-> params[f]]

NoFieldsToUpdate ==
    [isError |-> TRUE,
     text |-> "No fields to update. Provide at least one of: content, name, ttl, proxied, comment, tags, data."]

\* client.dns.records.edit(record_id, {zone_id, ...payload}) (lines 122-125).
UpdateCall(params, seq) ==
    [seq |-> seq, method |-> "edit", zone_id |-> params.zone_id,
     record_id |-> params.record_id, payload |-> UpdatePayload(params)]

UpdateTool == "cf_dns_update_record"

\* The update handler up to its await (lines 98-125).
UpdateRecordRequest(params) ==
    /\ pc = "idle"
    /\ req' = [tool |-> UpdateTool, params |-> params]
    /\ IF ~UpdateRecordSchema(params)
       THEN /\ resp' = InvalidParams
            /\ pc' = "done"
            /\ UNCHANGED <<client, calls, inflight>>
       ELSE IF getClientThrows
       THEN /\ resp' = ErrorResult(MissingTokenError)
            /\ pc' = "done"
            /\ UNCHANGED <<client, calls, inflight>>
       ELSE IF DOMAIN UpdatePayload(params) = {}
       THEN /\ resp' = NoFieldsToUpdate
            /\ pc' = "done"
            /\ client' = getClient
            /\ UNCHANGED <<calls, inflight>>
       ELSE LET call == UpdateCall(params, Len(calls) + 1)
            IN  /\ client' = getClient
                /\ calls' = Append(calls, call)
                /\ inflight' = {call}
                /\ pc' = "edit"
                /\ resp' = resp
    /\ UNCHANGED <<apiToken, taskVars, httpVars, dir, settled, bulkLocals,
                   listLocals, writeLocals, pureVars>>

\* The Directory answers and the update handler returns (lines 127-139).
UpdateRecordSettle ==
    /\ pc = "edit"
    /\ req.tool = UpdateTool
    /\ \E call \in inflight :
         \E outcome \in Outcomes(dir, call) :
            /\ settled' = Append(settled, [seq |-> call.seq, outcome |-> outcome])
            /\ IF outcome = "ok"
               THEN /\ dir' = DirApply(dir, call)
                    /\ resp' = Json([updated |-> TRUE,
                                     record |-> formatRecord(DirReturn(dir, call), TRUE)])
               ELSE /\ dir' = dir
                    /\ resp' = ErrorResult(ErrorOf(outcome))
    /\ inflight' = {}
    /\ pc' = "done"
    /\ UNCHANGED <<apiToken, taskVars, httpVars, client, calls, req, bulkLocals,
                   listLocals, writeLocals, pureVars>>

(***************************************************************************)
(* cf_dns_export_records (tools/records-read.ts).                          *)
(***************************************************************************)
\* ExportRecordsSchema (schemas/records.ts:63).
ExportRecordsSchema(params) == DOMAIN params = {"zone_id"}

ExportTool == "cf_dns_export_records"

\* The zone files the Directory can serialise a zone to: opaque texts, one
\* within the character budget and one beyond it.
ExportTexts ==
    {[len |-> 1000, newlines |-> {500}, notice |-> FALSE],
     [len |-> CHARACTER_LIMIT + 5000, newlines |-> {CHARACTER_LIMIT - 500},
      notice |-> FALSE]}

\* The export handler up to its await (lines 177-180).
ExportRecordsRequest(params) ==
    /\ pc = "idle"
    /\ req' = [tool |-> ExportTool, params |-> params]
    /\ IF ~ExportRecordsSchema(params)
       THEN /\ resp' = InvalidParams
            /\ pc' = "done"
            /\ UNCHANGED <<client, calls, inflight>>
       ELSE IF getClientThrows
       THEN /\ resp' = ErrorResult(MissingTokenError)
            /\ pc' = "done"
            /\ UNCHANGED <<client, calls, inflight>>
       ELSE LET call == [seq |-> Len(calls) + 1, method |-> "export",
                         zone_id |-> params.zone_id]
            IN  /\ client' = getClient
                /\ calls' = Append(calls, call)
                /\ inflight' = {call}
                /\ pc' = "export"
                /\ resp' = resp
    /\ UNCHANGED <<apiToken, taskVars, httpVars, dir, settled, bulkLocals,
                   listLocals, writeLocals, pureVars>>

\* The Directory answers and the export handler returns (lines 181-190).
ExportRecordsSettle ==
    /\ pc = "export"
    /\ req.tool = ExportTool
    /\ \E call \in inflight :
         \E outcome \in {"ok"} \cup FailureKinds :
            /\ settled' = Append(settled, [seq |-> call.seq, outcome |-> outcome])
            /\ IF outcome = "ok"
               THEN \E text \in ExportTexts :
                       resp' = Guarded([isError |-> FALSE,
                                        text |-> truncateIfNeeded(text)])
               ELSE resp' = ErrorResult(ErrorOf(outcome))
    /\ inflight' = {}
    /\ pc' = "done"
    /\ UNCHANGED <<apiToken, taskVars, httpVars, client, dir, calls, req,
                   bulkLocals, listLocals, writeLocals, pureVars>>

(***************************************************************************)
(* formatters/zone.ts and the zone tools (tools/zones.ts).                 *)
(***************************************************************************)
formatZone(zone, concise) ==
    IF ~concise THEN zone
    ELSE
      LET result ==
            [id     |-> StringOr(zone, "id"),
             name   |-> StringOr(zone, "name"),
             status |-> StringOr(zone, "status"),
             name_servers |-> IF Has(zone, "name_servers")
                              THEN zone.name_servers ELSE << >>]
          createdOn ==
            IF TruthyStr(zone, "created_on")
            THEN [created_on |-> zone.created_on] ELSE Empty
          modifiedOn ==
            IF TruthyStr(zone, "modified_on")
            THEN [modified_on |-> zone.modified_on] ELSE Empty
      IN  Merge(Merge(result, createdOn), modifiedOn)

formatZones(zs, concise) == [k \in DOMAIN zs |-> formatZone(zs[k], concise)]

\* The zones the Directory holds for the account; the tools never change
\* them.
AccountZones ==
    << [id |-> "z1", name |-> "example.com", status |-> "active",
        name_servers |-> <<"ns1", "ns2">>, account |-> [id |-> "acc1"],
        created_on |-> "t0"],
       [id |-> "z2", name |-> "example.org", status |-> "pending",
        name_servers |-> <<"ns1">>, account |-> [id |-> "acc1"]] >>

\* The Directory's zone listing: the zones matching the query, one page of
\* them per call (page 1 and 20 zones a page unless the query says more).
DirZoneMatches(z, query) ==
    /\ Has(query, "name") => z.name = query.name
    /\ Has(query, "status") => z.status = query.status

DirZoneList(query) ==
    LET Test(z) == DirZoneMatches(z, query)
        page == IF Has(query, "page") THEN query.page ELSE 1
        perPage == IF Has(query, "per_page") THEN query.per_page ELSE 20
    IN  Slice(SelectSeq(AccountZones, Test), (page - 1) * perPage, page * perPage)

DirZoneIds == {AccountZones[k].id : k \in DOMAIN AccountZones}

DirZoneGet(id) == AccountZones[CHOOSE k \in DOMAIN AccountZones : AccountZones[k].id = id]

\* ListZonesSchema (unnamed/part_000:4-19).
ListZonesSchema(params) ==
    /\ DOMAIN params \subseteq
          {"concise", "include_details", "page", "per_page", "filter_name",
           "filter_status", "filter_account_id"}
    /\ Has(params, "page") => params.page >= 1
    /\ Has(params, "per_page") =>
          params.per_page >= 1 /\ params.per_page <= MAX_PER_PAGE
    /\ Has(params, "filter_status") =>
          params.filter_status \in
             {"active", "pending", "initializing", "moved", "deleted", "deactivated"}

ParseListZones(params) ==
    Merge([concise |-> TRUE, include_details |-> FALSE, page |-> 1,
           per_page |-> DEFAULT_PER_PAGE], params)

\* queryParams of the zone listing (zones.ts:36-42).
ZoneQueryParams(params) ==
    LET base == [page |-> params.page, per_page |-> params.per_page]
        name == IF TruthyStr(params, "filter_name")
                THEN [name |-> params.filter_name] ELSE Empty
        status == IF TruthyStr(params, "filter_status")
                  THEN [status |-> params.filter_status] ELSE Empty
        account == IF TruthyStr(params, "filter_account_id")
                   THEN [f \in {"account.id"} |-> params.filter_account_id]
                   ELSE Empty
    IN  Merge(Merge(Merge(base, name), status), account)

\* client.zones.list(query) and the requests the page iterator makes after
\* it: the page after the one it holds, with the same query.
ZoneListCall(query, page, seq) ==
    [seq |-> seq, method |-> "zones.list", query |-> Merge(query, [page |-> page])]

ListZonesTool == "cf_dns_list_zones"

\* The handler from line 52 on: the response for the collected zones.
ListZonesResponse(params, zs) ==
    LET concise == OutputConcise(params)
        total == Len(zs)
        formatted == formatZones(zs, concise)
        pagination == buildPaginationMeta(total, formatted, params.page,
                                          params.per_page)
        start == (params.page - 1) * params.per_page
        paged == Slice(formatted, start, start + params.per_page)
    IN  Guarded(Json([pagination |-> Merge(pagination, [count |-> Len(paged)]),
                      zones |-> paged]))

\* The list-zones handler up to its first await (zones.ts:31-44).
ListZonesRequest(params) ==
    /\ pc = "idle"
    /\ IF ~ListZonesSchema(params)
       THEN /\ req' = [tool |-> ListZonesTool, params |-> params]
            /\ resp' = InvalidParams
            /\ pc' = "done"
            /\ UNCHANGED <<client, calls, inflight>>
       ELSE /\ req' = [tool |-> ListZonesTool, params |-> ParseListZones(params)]
            /\ IF getClientThrows
               THEN /\ resp' = ErrorResult(MissingTokenError)
                    /\ pc' = "done"
                    /\ UNCHANGED <<client, calls, inflight>>
               ELSE LET parsed == ParseListZones(params)
                        call == ZoneListCall(ZoneQueryParams(parsed), parsed.page,
                                             Len(calls) + 1)
                    IN  /\ client' = getClient
                        /\ calls' = Append(calls, call)
                        /\ inflight' = {call}
                        /\ pc' = "zones"
                        /\ resp' = resp
    /\ records' = << >>
    /\ UNCHANGED <<apiToken, taskVars, httpVars, dir, settled, bulkLocals,
                   writeLocals, pureVars>>

\* The Directory answers a page of zones and the handler resumes: a failure
\* ends the request in the catch clause (lines 67-72); the page's zones are
\* collected (lines 47-50) and the iterator asks for the next page until a
\* page comes back empty; then the handler runs on to its return.
ListZonesSettle ==
    /\ pc = "zones"
    /\ req.tool = ListZonesTool
    /\ \E call \in inflight :
         \E outcome \in {"ok"} \cup FailureKinds :
            /\ settled' = Append(settled, [seq |-> call.seq, outcome |-> outcome])
            /\ IF outcome # "ok"
               THEN /\ resp' = ErrorResult(ErrorOf(outcome))
                    /\ pc' = "done"
                    /\ inflight' = {}
                    /\ UNCHANGED <<calls, records>>
               ELSE LET items == DirZoneList(call.query)
                    IN  /\ records' = records \o items
                        /\ IF items = << >>
                           THEN /\ resp' = ListZonesResponse(req.params, records)
                                /\ pc' = "done"
                                /\ inflight' = {}
                                /\ calls' = calls
                           ELSE LET next == ZoneListCall(call.query, call.query.page + 1,
                                                         Len(calls) + 1)
                                IN  /\ calls' = Append(calls, next)
                                    /\ inflight' = {next}
                                    /\ pc' = "zones"
                                    /\ resp' = resp
    /\ UNCHANGED <<apiToken, taskVars, httpVars, client, dir, req, bulkLocals,
                   writeLocals, pureVars>>

\* GetZoneSchema (unnamed/part_000:23-38): zone_id or zone_name is given.
GetZoneSchema(params) ==
    /\ DOMAIN params \subseteq {"zone_id", "zone_name", "concise", "include_details"}
    /\ TruthyStr(params, "zone_id") \/ TruthyStr(params, "zone_name")

ParseGetZone(params) ==
    Merge([concise |-> TRUE, include_details |-> FALSE], params)

GetZoneTool == "cf_dns_get_zone"

ZoneGetCall(zoneId, seq) == [seq |-> seq, method |-> "zones.get", zone_id |-> zoneId]

NoZoneFound == [isError |-> TRUE, text |-> "No zone found for domain."]

\* The get-zone handler up to its first await (zones.ts:93-102, 123): the
\* lookup by name when no zone_id is given, the get otherwise.
GetZoneRequest(params) ==
    /\ pc = "idle"
    /\ IF ~GetZoneSchema(params)
       THEN /\ req' = [tool |-> GetZoneTool, params |-> params]
            /\ resp' = InvalidParams
            /\ pc' = "done"
            /\ UNCHANGED <<client, calls, inflight>>
       ELSE /\ req' = [tool |-> GetZoneTool, params |-> ParseGetZone(params)]
            /\ IF getClientThrows
               THEN /\ resp' = ErrorResult(MissingTokenError)
                    /\ pc' = "done"
                    /\ UNCHANGED <<client, calls, inflight>>
               ELSE LET call == IF ~TruthyStr(params, "zone_id")
                                THEN ZoneListCall([name |-> params.zone_name], 1,
                                                  Len(calls) + 1)
                                ELSE ZoneGetCall(params.zone_id, Len(calls) + 1)
                    IN  /\ client' = getClient
                        /\ calls' = Append(calls, call)
                        /\ inflight' = {call}
                        /\ pc' = IF ~TruthyStr(params, "zone_id")
                                 THEN "zone-lookup" ELSE "zone-get"
                        /\ resp' = resp
    /\ records' = << >>
    /\ UNCHANGED <<apiToken, taskVars, httpVars, dir, settled, bulkLocals,
                   writeLocals, pureVars>>

\* The lookup by name settles (lines 103-114): its zones are collected page
\* by page; with none found the handler returns an error, otherwise it
\* gets the first zone found.
GetZoneLookup ==
    /\ pc = "zone-lookup"
    /\ req.tool = GetZoneTool
    /\ \E call \in inflight :
         \E outcome \in {"ok"} \cup FailureKinds :
            /\ settled' = Append(settled, [seq |-> call.seq, outcome |-> outcome])
            /\ IF outcome # "ok"
               THEN /\ resp' = ErrorResult(ErrorOf(outcome))
                    /\ pc' = "done"
                    /\ inflight' = {}
                    /\ UNCHANGED <<calls, records>>
               ELSE LET items == DirZoneList(call.query)
                    IN  /\ records' = records \o items
                        /\ IF items # << >>
                           THEN LET next == ZoneListCall(call.query, call.query.page + 1,
                                                         Len(calls) + 1)
                                IN  /\ calls' = Append(calls, next)
                                    /\ inflight' = {next}
                                    /\ pc' = "zone-lookup"
                                    /\ resp' = resp
                           ELSE IF records = << >>
                           THEN /\ resp' = NoZoneFound
                                /\ pc' = "done"
                                /\ inflight' = {}
                                /\ calls' = calls
                           ELSE LET get == ZoneGetCall(StringOr(records[1], "id"),
                                                       Len(calls) + 1)
                                IN  /\ calls' = Append(calls, get)
                                    /\ inflight' = {get}
                                    /\ pc' = "zone-get"
                                    /\ resp' = resp
    /\ UNCHANGED <<apiToken, taskVars, httpVars, client, dir, req, bulkLocals,
                   writeLocals, pureVars>>

\* The Directory answers the get and the handler returns (lines 123-133).
GetZoneSettle ==
    /\ pc = "zone-get"
    /\ req.tool = GetZoneTool
    /\ \E call \in inflight :
         \E outcome \in IF call.zone_id \in DirZoneIds
                        THEN {"ok"} \cup FailureKinds ELSE FailureKinds :
            /\ settled' = Append(settled, [seq |-> call.seq, outcome |-> outcome])
            /\ resp' = IF outcome = "ok"
                       THEN Json([zone |-> formatZone(DirZoneGet(call.zone_id),
                                                      OutputConcise(req.params))])
                       ELSE ErrorResult(ErrorOf(outcome))
    /\ inflight' = {}
    /\ pc' = "done"
    /\ UNCHANGED <<apiToken, taskVars, httpVars, client, dir, calls, req,
                   bulkLocals, listLocals, writeLocals, pureVars>>

\* Requests of the write, export and zone tools.
CreateInputs ==
    {Merge(Merge([zone_id |-> "z1", type |-> "A", name |-> "a", content |-> c], p), m) :
        c \in {"", "1.2.3.4"}, p \in OptField("proxied", BOOLEAN),
        m \in OptField("comment", {"", "note"})}

UpdateInputs ==
    {Merge(Merge(Merge([zone_id |-> "z1", record_id |-> id], c), p), m) :
        id \in {"r1", "r9"}, c \in OptField("content", {"", "9.9.9.9"}),
        p \in OptField("proxied", BOOLEAN), m \in OptField("comment", {""})}
    \cup {[zone_id |-> "z1", record_id |-> "r1", ttl |-> 0]}

ExportInputs == {[zone_id |-> "z1"], [zone_id |-> "z1", format |-> "bind"]}

ListZonesInputs ==
    {Merge(Merge([page |-> pg, per_page |-> pp], f), flags) :
        pg \in 0..MaxPage, pp \in {1, DEFAULT_PER_PAGE},
        f \in OptField("filter_name", {"example.org"}),
        flags \in OptField("include_details", {TRUE})}

GetZoneInputs ==
    {Merge(z, n) : z \in OptField("zone_id", {"z1", "z9"}),
                   n \in OptField("zone_name", {"example.org", "example.net"})}

\* A zone whose records carry what the Directory adds to them.
RichZone ==
    << [id |-> "r1", type |-> "A", name |-> "www", content |-> "1.1.1.1",
        ttl |-> 1, proxied |-> TRUE, created_on |-> "t0",
        meta |-> [auto_added |-> FALSE]],
       [id |-> "r2", type |-> "MX", name |-> "mail", content |-> "mx.example",
        ttl |-> 300, priority |-> 10, proxied |-> FALSE, proxiable |-> FALSE],
       [id |-> "r3", type |-> "SRV", name |-> "_sip", content |-> "1 2 5060 sip",
        ttl |-> 1, tags |-> <<"t">>,
        data |-> [priority |-> 1, weight |-> 2, port |-> 5060, target |-> "sip"]] >>

RecordZones == {<< >>, InitialZone, RichZone}

RecordIds == {"r1", "r2", "r3", "r9"}

OutputFlags ==
    {Merge(c, d) : c \in OptField("concise", BOOLEAN),
                   d \in OptField("include_details", BOOLEAN)}

GetInputs ==
    {Merge([zone_id |-> "z1", record_id |-> id], flags) :
        id \in RecordIds, flags \in OutputFlags}
    \cup {[zone_id |-> "z1"]}

DeleteInputs ==
    {Merge([zone_id |-> "z1", record_id |-> id], c) :
        id \in RecordIds, c \in OptField("confirm", BOOLEAN)}

\* List requests that set the output flags.
DetailInputs ==
    {Merge(Merge([zone_id |-> "z1", per_page |-> pp], mode), flags) :
        pp \in {1, MaxPerPage},
        mode \in {Empty, [random_sample |-> TRUE, sample_size |-> 1],
                  [summary_only |-> TRUE]},
        flags \in OutputFlags}

\* List requests that set a tag filter or an order.
FilterInputs ==
    {Merge(Merge([zone_id |-> "z1", per_page |-> MaxPerPage], mode), f) :
        mode \in {Empty, [random_sample |-> TRUE, sample_size |-> MaxSample],
                  [summary_only |-> TRUE]},
        f \in {[filter_tag |-> "t"], [order |-> "ttl"], [order |-> "type"],
               [filter_type |-> "A", order |-> "name"]}}

InitRecord ==
    /\ apiToken \in BOOLEAN
    /\ client = "null"
    /\ dir \in RecordZones
    /\ calls = << >>
    /\ inflight = {}
    /\ settled = << >>
    /\ pc = "idle"
    /\ req = NoReq
    /\ i = 0
    /\ results = << >>
    /\ created = 0
    /\ updated = 0
    /\ failed = 0
    /\ records = << >>
    /\ recordInfo = None
    /\ tasks = NoTasks
    /\ HttpOff
    /\ resp = NoResp
    /\ arg = NoCall
    /\ ret = NoResp

NextRecord ==
    \/ \E params \in GetInputs : GetRecordRequest(params)
    \/ GetRecordSettle
    \/ \E params \in DeleteInputs : DeleteRecordRequest(params)
    \/ DeleteRecordLookup
    \/ DeleteRecordSettle
    \/ \E params \in DetailInputs \cup FilterInputs : ListRecordsRequest(params)
    \/ ListRecordsSettle
    \/ \E params \in CreateInputs : CreateRecordRequest(params)
    \/ CreateRecordSettle
    \/ \E params \in UpdateInputs : UpdateRecordRequest(params)
    \/ UpdateRecordSettle
    \/ \E params \in ExportInputs : ExportRecordsRequest(params)
    \/ ExportRecordsSettle
    \/ \E params \in ListZonesInputs : ListZonesRequest(params)
    \/ ListZonesSettle
    \/ \E params \in GetZoneInputs : GetZoneRequest(params)
    \/ GetZoneLookup
    \/ GetZoneSettle

SpecRecord == InitRecord /\ [][NextRecord]_vars

(***************************************************************************)
(* Properties of the single-record tools and of the output flags.          *)
(***************************************************************************)
GetReturned == pc = "done" /\ req.tool = GetTool /\ Has(resp, "json")

\* The records a read tool's response carries.
Emitted ==
    IF GetReturned THEN {resp.json.record}
    ELSE IF ListReturned /\ Has(resp.json, "records") THEN Range(resp.json.records)
    ELSE {}

\* Two records have the same fields with the same values (a number and a
\* string are different values).
SameRecord(a, b) ==
    /\ DOMAIN a = DOMAIN b
    /\ \A f \in DOMAIN a : ToString(a[f]) = ToString(b[f])

\* C17: full mode is the identity, format(r, false) = r and so is applying
\* it twice, and include_details = true forces full mode in the read tools
\* whatever concise is: each record comes out as the Directory holds it.
C17_FullModeIsIdentity ==
    /\ \A k \in DOMAIN dir :
          /\ SameRecord(formatRecord(dir[k], FALSE), dir[k])
          /\ SameRecord(formatRecord(formatRecord(dir[k], FALSE), FALSE), dir[k])
    /\ ((GetReturned \/ ListReturned) /\ req.params.include_details) =>
          /\ \A e \in Emitted : \E k \in DOMAIN dir : SameRecord(e, dir[k])
          /\ GetReturned =>
                SameRecord(resp.json.record, DirGet(dir, req.params.record_id))

C17_Witness ==
    /\ GetReturned
    /\ req.params.include_details
    /\ req.params.concise
    /\ req.params.record_id = "r3"
    /\ SameRecord(resp.json.record, RichZone[3])

(***************************************************************************)
(* Properties of the concise format.                                       *)
(***************************************************************************)
FormattedConcise == arg.fn = "formatRecord" /\ Has(ret, "value") /\ arg.concise

TypeIs(r, types) == Has(r, "type") /\ r.type \in types

\* C18: the concise output has proxied exactly for A, AAAA and CNAME
\* records, never for MX or TXT whatever the source's proxied value, and
\* for an MX record it has the source's priority whenever the source has
\* one.
C18_ProxiedOnlyForProxyTypes ==
    FormattedConcise =>
        /\ Has(ret.value, "proxied") <=> TypeIs(arg.record, {"A", "AAAA", "CNAME"})
        /\ Has(ret.value, "proxied") =>
              (ret.value.proxied <=> TruthyBool(arg.record, "proxied"))
        /\ (TypeIs(arg.record, {"MX"}) /\ Has(arg.record, "priority")) =>
              (Has(ret.value, "priority") /\ ret.value.priority = arg.record.priority)

C18_Witness ==
    /\ FormattedConcise
    /\ TypeIs(arg.record, {"MX"})
    /\ Has(arg.record, "proxied")
    /\ arg.record.proxied
    /\ Has(arg.record, "priority")
    /\ ~Has(ret.value, "proxied")
    /\ ret.value.priority = 10

ConciseFields ==
    {"id", "type", "name", "content", "ttl", "proxied", "comment", "created_on",
     "modified_on", "priority", "weight", "port"}

\* C19: the concise output's fields are among id, type, name, content,
\* ttl, proxied, comment, created_on, modified_on, priority, weight, port;
\* weight and port appear only for SRV records, taken from the structured
\* payload, priority only for MX and SRV records, and nothing else of the
\* payload or the source record appears.
C19_ConciseFieldsOnly ==
    FormattedConcise =>
        /\ DOMAIN ret.value \subseteq ConciseFields
        /\ \A f \in {"weight", "port"} :
              Has(ret.value, f) =>
                 /\ TypeIs(arg.record, {"SRV"})
                 /\ Has(arg.record, "data")
                 /\ ret.value[f] = arg.record.data[f]
        /\ Has(ret.value, "priority") => TypeIs(arg.record, {"MX", "SRV"})
        /\ (Has(ret.value, "priority") /\ TypeIs(arg.record, {"SRV"})) =>
              ret.value.priority = arg.record.data.priority

C19_Witness ==
    /\ FormattedConcise
    /\ TypeIs(arg.record, {"SRV"})
    /\ Has(arg.record, "data")
    /\ Has(arg.record, "meta")
    /\ Has(arg.record, "priority")
    /\ DOMAIN ret.value =
          {"id", "type", "name", "content", "ttl", "comment", "created_on",
           "priority", "weight", "port"}
    /\ ret.value.priority = 1
    /\ ret.value.port = 5060

(***************************************************************************)
(* Properties of the delete tool.                                          *)
(***************************************************************************)
\* The delete request being served carries confirm = true.
DeleteConfirmed == Has(req.params, "confirm") /\ req.params.confirm

DeleteUnconfirmed == req.tool = DeleteTool /\ ~DeleteConfirmed

\* C20: the delete tool issues no Directory call, a delete or any other,
\* unless the request carries confirm = true; a request without confirm or
\* with confirm = false ends in an error result and the Directory stays as
\* it was.
C20_NoDeleteWithoutConfirm ==
    /\ [](DeleteUnconfirmed =>
            /\ calls = << >>
            /\ inflight = {}
            /\ pc = "done"
            /\ resp.isError)
    /\ [][DeleteUnconfirmed' => dir' = dir]_vars

C20_Witness ==
    /\ DeleteUnconfirmed
    /\ Has(req.params, "confirm")
    /\ req.params.record_id = "r1"
    /\ "r1" \in DirIds(dir)
    /\ resp = InvalidParams
    /\ calls = << >>

(***************************************************************************)
(* Properties of the error handling of the non-bulk tools.                 *)
(***************************************************************************)
NonBulkTools ==
    {ListTool, GetTool, ExportTool, ListZonesTool, GetZoneTool, CreateTool,
     UpdateTool, DeleteTool}

\* C21: for every non-bulk tool and every failure kind, a failing Directory
\* call ends the request with an error result whose text is the message
\* the failure maps to, never with a success envelope (and a not-found of
\* list-records never with a summary or a page of zero records).
C21_FailureEndsInError ==
    \A k \in DOMAIN settled :
        (req.tool \in NonBulkTools /\ settled[k].outcome # "ok") =>
            /\ pc = "done"
            /\ resp = ErrorResult(ErrorOf(settled[k].outcome))

\* The call answered by the k-th answer of the Directory.
CallOf(k) == calls[settled[k].seq]

\* The lookup the delete tool makes before it deletes.
DeleteLookup(k) == req.tool = DeleteTool /\ CallOf(k).method = "get"

\* C21 (amended): for every non-bulk tool and every failure kind, a failing
\* Directory call other than the delete tool's preliminary lookup ends the
\* request with an error result (isError set) whose text is the message the
\* failure maps to, and never with a success envelope.
C21_FailureOfToolCallEndsInError ==
    \A k \in DOMAIN settled :
        (req.tool \in NonBulkTools /\ settled[k].outcome # "ok" /\ ~DeleteLookup(k)) =>
            /\ pc = "done"
            /\ inflight = {}
            /\ resp.isError
            /\ resp.text = handleApiError(ErrorOf(settled[k].outcome))
            /\ ~Has(resp, "json")

C21_Witness ==
    /\ req.tool = ListTool
    /\ req.params.summary_only
    /\ settled = <<[seq |-> 1, outcome |-> "not-found"]>>
    /\ resp.isError
    /\ resp.text = "Error (404 Not Found)"
    /\ ~Has(resp, "json")

(***************************************************************************)
(* Properties of the list tool's filters and order.                        *)
(***************************************************************************)
\* The record r satisfies every filter the caller set (the requests
\* explored set no substring filter).
CallerFilter(r, params) ==
    /\ TruthyStr(params, "filter_type") =>
          (Has(r, "type") /\ r.type = params.filter_type)
    /\ Has(params, "filter_proxied") =>
          (TruthyBool(r, "proxied") <=> params.filter_proxied)
    /\ TruthyStr(params, "filter_tag") =>
          (Has(r, "tags") /\ params.filter_tag \in Range(r.tags))

\* C22: every record list-records emits or counts, in any mode, satisfies
\* all the filters the caller set, also when the Directory applies a filter
\* only best-effort and returns a record that does not match.
C22_OnlyMatchingRecords ==
    ListReturned =>
        LET matching == {k \in DOMAIN dir : CallerFilter(dir[k], req.params)}
        IN  /\ Has(resp.json, "records") =>
                  \A k \in DOMAIN resp.json.records :
                      CallerFilter(DirGet(dir, resp.json.records[k].id), req.params)
            /\ Has(resp.json, "summary") =>
                  resp.json.summary.total <= Cardinality(matching)
            /\ Has(resp.json, "sample") =>
                  resp.json.sample.total_in_zone <= Cardinality(matching)

\* The position in the fetched sequence of the record with identifier id.
FetchedAt(id) == CHOOSE k \in DOMAIN records : records[k].id = id

\* C26: in paginated mode with an order field requested, the records of
\* the returned page are in ascending order of that field, and records
\* with equal values of it keep their relative order from the fetched
\* sequence, whatever order the Directory delivered them in.
C26_PageSortedStably ==
    (ListReturned /\ ListMode(req.params) = "paginated"
                  /\ TruthyStr(req.params, "order")) =>
        LET page == resp.json.records
            field == req.params.order
            KeyAt(k) == OrderKey(DirGet(dir, page[k].id), field)
        IN  \A a, b \in DOMAIN page :
                a < b =>
                    /\ KeyAt(a) <= KeyAt(b)
                    /\ KeyAt(a) = KeyAt(b) =>
                          FetchedAt(page[a].id) < FetchedAt(page[b].id)

(***************************************************************************)
(* Properties of the confirmed delete.                                     *)
(***************************************************************************)
DeleteServed == req.tool = DeleteTool /\ DeleteConfirmed

\* The Directory's answer to call number n, once it is there.
Answered(n) == \E k \in DOMAIN settled : settled[k].seq = n

AnswerTo(n) == settled[CHOOSE k \in DOMAIN settled : settled[k].seq = n].outcome

\* C28: a confirmed delete first issues a Directory get for the record and
\* then the Directory delete, the delete only once the get has been
\* answered; a failure of the get, not-found included, is swallowed and the
\* delete is issued all the same; the response reports deleted: true if
\* and only if the delete call itself succeeded, and is an error result
\* otherwise.
C28_LookupThenDelete ==
    DeleteServed =>
        /\ Len(calls) <= 2
        /\ Len(calls) >= 1 =>
              /\ calls[1].method = "get"
              /\ calls[1].record_id = req.params.record_id
        /\ Len(calls) = 2 <=> Answered(1)
        /\ Len(calls) = 2 =>
              /\ calls[2].method = "delete"
              /\ calls[2].record_id = req.params.record_id
        /\ (pc = "done" /\ calls # << >>) =>
              /\ Answered(2)
              /\ IF AnswerTo(2) = "ok"
                 THEN Has(resp, "json") /\ resp.json.deleted
                 ELSE resp.isError /\ ~Has(resp, "json")

C28_Witness ==
    /\ DeleteServed
    /\ pc = "done"
    /\ settled = <<[seq |-> 1, outcome |-> "not-found"], [seq |-> 2, outcome |-> "ok"]>>
    /\ resp.json.deleted
    /\ resp.json.was = "r1"
    /\ dir = << InitialZone[2] >>

(***************************************************************************)
(* Properties of the single-record update.                                 *)
(***************************************************************************)
UpdateServed == req.tool = UpdateTool

\* The updatable fields the caller provided.
Provided == DOMAIN req.params \cap UpdatableFields

\* C24: the update tool sends a patch holding exactly the fields the
\* caller provided among content, name, ttl, proxied, comment, tags and
\* data, with the caller's values (false and the empty string included),
\* so the record's other fields stay as they were; with no such field
\* provided it returns an error and issues no Directory call.
C24_PatchIsProvidedFields ==
    /\ [](UpdateServed =>
            /\ \A k \in DOMAIN calls :
                  /\ calls[k].method = "edit"
                  /\ calls[k].record_id = req.params.record_id
                  /\ DOMAIN calls[k].payload = Provided
                  /\ \A f \in Provided : calls[k].payload[f] = req.params[f]
            /\ Provided = {} => (calls = << >> /\ pc = "done" /\ resp.isError))
    /\ [][UpdateServed' =>
            /\ Len(dir') = Len(dir)
            /\ \A k \in DOMAIN dir :
                  \A f \in DOMAIN dir[k] \ Provided' :
                      Has(dir'[k], f) /\ dir'[k][f] = dir[k][f]]_vars

C24_Witness ==
    /\ UpdateServed
    /\ pc = "done"
    /\ Provided = {"content", "proxied"}
    /\ req.params.content = ""
    /\ ~req.params.proxied
    /\ Len(calls) = 1
    /\ calls[1].payload = [content |-> "", proxied |-> FALSE]
    /\ Has(resp, "json")
    /\ resp.json.updated
    /\ DirGet(dir, "r1").content = ""
    /\ DirGet(dir, "r1").name = "www"

(***************************************************************************)
(* Properties of the paginated total.                                      *)
(***************************************************************************)
\* C25: in paginated mode pagination.total is the number of the zone's
\* records that match the filter, so has_more is true whenever matching
\* records lie beyond the current page, and a page that lies within the
\* matching set is never returned empty; for every zone size, zones of
\* more than 10 * per_page matching records included.
C25_TotalIsMatchCount ==
    (ListReturned /\ ListMode(req.params) = "paginated") =>
        LET p == req.params
            meta == resp.json.pagination
        IN  /\ meta.total = MatchCount
            /\ meta.has_more <=> (p.page * p.per_page < MatchCount)
            /\ (p.page - 1) * p.per_page < MatchCount => meta.count > 0

(***************************************************************************)
(* A batch of one item against the single-record tool.                     *)
(***************************************************************************)
\* The single-record request with the fields of the batch's only item.
SingleParams == Merge([zone_id |-> req.params.zone_id], req.params.records[1])

\* The single-record tool returns before it calls the Directory.
SingleRejects ==
    IF req.tool = "cf_dns_bulk_create"
    THEN ~CreateRecordSchema(SingleParams)
    ELSE ~UpdateRecordSchema(SingleParams) \/ DOMAIN UpdatePayload(SingleParams) = {}

\* The Directory call the single-record tool issues.
SingleCall ==
    IF req.tool = "cf_dns_bulk_create"
    THEN CreateCall(ParseCreateRecord(SingleParams), 1)
    ELSE UpdateCall(SingleParams, 1)

\* Two calls ask the Directory for the same thing.
SameCall(a, b) ==
    /\ a.method = b.method
    /\ a.zone_id = b.zone_id
    /\ a.payload = b.payload
    /\ Has(a, "record_id") <=> Has(b, "record_id")
    /\ Has(a, "record_id") => a.record_id = b.record_id

\* C30: a batch of exactly one item behaves like the single-record tool:
\* for the same fields it issues the same Directory call, and it reports
\* the item as failed without any Directory call in exactly the cases
\* where the single tool rejects the request before calling the Directory.
C30_BatchOfOneIsSingle ==
    (BulkServed /\ Len(req.params.records) = 1 /\ client # "null") =>
        IF SingleRejects
        THEN /\ calls = << >>
             /\ Has(resp, "json")
             /\ resp.json.failed = 1
             /\ ~resp.json.results[1].success
        ELSE /\ Len(calls) = 1
             /\ SameCall(calls[1], SingleCall)

(***************************************************************************)
(* Concurrent requests.  Handlers run on one thread and are suspended only *)
(* at their awaits, so two requests interleave at their Directory calls:   *)
(* each task below is one invocation of a handler with its own locals      *)
(* (tools/records-bulk.ts lines 33-42, 108-118), sharing the client holder *)
(* and the Directory.                                                      *)
(***************************************************************************)
TaskIds == {1, 2}

IdleTask ==
    [pc |-> "idle", req |-> NoReq, client |-> "null", i |-> 0, results |-> << >>,
     created |-> 0, updated |-> 0, failed |-> 0, resp |-> NoResp]

\* Mutant: results and the counters are module-level, one for all invocations.
FrameShared(t) == 1

\* The invocation whose frame holds the locals that task t's handler pushes
\* to and counts in: they are declared inside the handler (lines 34-42).
Frame(t) == t

\* The failures the Directory answers a concurrent task's call with.
TaskFailureKinds == {"not-found"}

TaskOutcomes(d, call) == Outcomes(d, call) \cap ({"ok"} \cup TaskFailureKinds)

\* Batches of one to MaxTaskOps operations: the k-th create is named "a" or
\* "b" in turn, the k-th update is of r1 (in the zone) or r9 (not in it).
TaskCreateInputs ==
    {[zone_id |-> "z1",
      records |-> [k \in 1..n |-> [type |-> "A",
                                   name |-> IF k % 2 = 1 THEN "a" ELSE "b",
                                   content |-> "1.2.3.4"]]] : n \in 1..MaxTaskOps}

TaskUpdateInputs ==
    {[zone_id |-> "z1",
      records |-> [k \in 1..n |-> [record_id |-> IF k % 2 = 1 THEN "r1" ELSE "r9",
                                   content |-> "9.9.9.9"]]] : n \in 1..MaxTaskOps}

TaskSingleInputs == {[zone_id |-> "z1", record_id |-> "r2", content |-> "mx2.example"]}

\* A bulk handler up to its loop (lines 31-42, 106-118), run by task t.
TaskBulkEnter(t, tool, params) ==
    /\ tasks[t].pc = "idle"
    /\ IF tool = "cf_dns_bulk_create"
       THEN BulkCreateSchema(params) ELSE BulkUpdateSchema(params)
    /\ LET parsed == IF tool = "cf_dns_bulk_create"
                     THEN ParseBulkCreate(params) ELSE params
       IN  IF getClientThrows
           THEN /\ tasks' = [tasks EXCEPT ![t].req = [tool |-> tool, params |-> parsed],
                                          ![t].resp = ErrorResult(MissingTokenError),
                                          ![t].pc = "done"]
                /\ client' = client
           ELSE /\ client' = getClientBy(ToString(t))
                /\ tasks' = [tasks EXCEPT ![t].req = [tool |-> tool, params |-> parsed],
                                          ![t].client = getClientBy(ToString(t)),
                                          ![t].i = 0,
                                          ![t].pc = "loop",
                                          ![Frame(t)].results = << >>,
                                          ![Frame(t)].created = 0,
                                          ![Frame(t)].updated = 0,
                                          ![Frame(t)].failed = 0]
    /\ UNCHANGED <<apiToken, httpVars, dir, calls, inflight, settled, pc, req,
                   bulkLocals, listLocals, writeLocals, resp, pureVars>>

\* One iteration's call is issued and task t awaits it (lines 59, 132).
TaskBulkIssue(t) ==
    /\ tasks[t].pc = "loop"
    /\ tasks[t].req.tool \in BulkTools
    /\ LoopRuns(tasks[t].i, tasks[t].req.params)
    /\ LET call == Merge(BulkCall(tasks[t].req.tool, tasks[t].req.params,
                                  tasks[t].i, Len(calls) + 1), [task |-> t])
       IN  /\ calls' = Append(calls, call)
           /\ inflight' = inflight \cup {call}
    /\ tasks' = [tasks EXCEPT ![t].pc = AfterIssue]
    /\ UNCHANGED <<apiToken, httpVars, client, dir, settled, pc, req, bulkLocals,
                   listLocals, writeLocals, resp, pureVars>>

\* The Directory settles the call task t awaits and the task resumes: the
\* try block runs to its end on success, the catch clause on failure,
\* then i++ (lines 64-70, 137-143).
TaskBulkSettle(t) ==
    /\ tasks[t].pc = "await"
    /\ tasks[t].req.tool \in BulkTools
    /\ \E call \in {c \in inflight : c.task = t} :
         \E outcome \in TaskOutcomes(dir, call) :
            LET tool == tasks[t].req.tool
                params == tasks[t].req.params
                mine == tasks[Frame(t)]
            IN  /\ inflight' = inflight \ {call}
                /\ settled' = Append(settled, [seq |-> call.seq, outcome |-> outcome])
                /\ IF outcome = "ok"
                   THEN /\ dir' = DirApply(dir, call)
                        /\ tasks' =
                             [tasks EXCEPT
                                ![t].i = @ + 1,
                                ![t].pc = "loop",
                                ![Frame(t)].results =
                                    PushSuccess(mine.results, tool, params, tasks[t].i,
                                                DirReturn(dir, call)),
                                ![Frame(t)].created =
                                    IF tool = "cf_dns_bulk_create" THEN @ + 1 ELSE @,
                                ![Frame(t)].updated =
                                    IF tool = "cf_dns_bulk_update" THEN @ + 1 ELSE @]
                   ELSE /\ dir' = dir
                        /\ tasks' =
                             [tasks EXCEPT
                                ![t].i = @ + 1,
                                ![t].pc = "loop",
                                ![Frame(t)].results =
                                    PushFailure(mine.results, tool, params, tasks[t].i,
                                                ErrorOf(outcome)),
                                ![Frame(t)].failed = FailedAfterCatch(@)]
    /\ UNCHANGED <<apiToken, httpVars, client, calls, pc, req, bulkLocals,
                   listLocals, writeLocals, resp, pureVars>>

\* The loop has ended: task t returns the batch's result (lines 73-78,
\* 146-151).
TaskBulkReturn(t) ==
    /\ tasks[t].pc = "loop"
    /\ tasks[t].req.tool \in BulkTools
    /\ ~LoopRuns(tasks[t].i, tasks[t].req.params)
    /\ LET mine == tasks[Frame(t)]
           total == Len(tasks[t].req.params.records)
       IN  tasks' =
             [tasks EXCEPT
                ![t].pc = "done",
                ![t].resp =
                    IF tasks[t].req.tool = "cf_dns_bulk_create"
                    THEN Json([created |-> mine.created, failed |-> mine.failed,
                               total |-> total, results |-> mine.results])
                    ELSE Json([updated |-> mine.updated, failed |-> mine.failed,
                               total |-> total, results |-> mine.results])]
    /\ UNCHANGED <<apiToken, httpVars, client, dir, calls, inflight, settled, pc,
                   req, bulkLocals, listLocals, writeLocals, resp, pureVars>>

\* The single-record update handler up to its await, run by task t
\* (records-write.ts:98-125).
TaskUpdateEnter(t, params) ==
    /\ tasks[t].pc = "idle"
    /\ UpdateRecordSchema(params)
    /\ DOMAIN UpdatePayload(params) # {}
    /\ IF getClientThrows
       THEN /\ tasks' = [tasks EXCEPT ![t].req = [tool |-> UpdateTool, params |-> params],
                                      ![t].resp = ErrorResult(MissingTokenError),
                                      ![t].pc = "done"]
            /\ UNCHANGED <<client, calls, inflight>>
       ELSE LET call == Merge(UpdateCall(params, Len(calls) + 1), [task |-> t])
            IN  /\ client' = getClientBy(ToString(t))
                /\ tasks' = [tasks EXCEPT ![t].req = [tool |-> UpdateTool, params |-> params],
                                          ![t].client = getClientBy(ToString(t)),
                                          ![t].pc = "edit"]
                /\ calls' = Append(calls, call)
                /\ inflight' = inflight \cup {call}
    /\ UNCHANGED <<apiToken, httpVars, dir, settled, pc, req, bulkLocals,
                   listLocals, writeLocals, resp, pureVars>>

\* The Directory answers and task t's update handler returns (lines 127-139).
TaskUpdateSettle(t) ==
    /\ tasks[t].pc = "edit"
    /\ \E call \in {c \in inflight : c.task = t} :
         \E outcome \in TaskOutcomes(dir, call) :
            /\ inflight' = inflight \ {call}
            /\ settled' = Append(settled, [seq |-> call.seq, outcome |-> outcome])
            /\ IF outcome = "ok"
               THEN /\ dir' = DirApply(dir, call)
                    /\ tasks' = [tasks EXCEPT
                                   ![t].pc = "done",
                                   ![t].resp =
                                       Json([updated |-> TRUE,
                                             record |-> formatRecord(DirReturn(dir, call),
                                                                     TRUE)])]
               ELSE /\ dir' = dir
                    /\ tasks' = [tasks EXCEPT
                                   ![t].pc = "done",
                                   ![t].resp = ErrorResult(ErrorOf(outcome))]
    /\ UNCHANGED <<apiToken, httpVars, client, calls, pc, req, bulkLocals,
                   listLocals, writeLocals, resp, pureVars>>

\* The environment sets CLOUDFLARE_API_TOKEN, which getClient reads anew on
\* every call that finds no client held (line 12).
SetApiToken ==
    /\ ~apiToken
    /\ apiToken' = TRUE
    /\ UNCHANGED <<taskVars, httpVars, client, dir, calls, inflight, settled, pc,
                   req, bulkLocals, listLocals, writeLocals, resp, pureVars>>

InitTasks ==
    /\ apiToken \in BOOLEAN
    /\ client = "null"
    /\ dir = InitialZone
    /\ calls = << >>
    /\ inflight = {}
    /\ settled = << >>
    /\ pc = "idle"
    /\ req = NoReq
    /\ i = 0
    /\ results = << >>
    /\ created = 0
    /\ updated = 0
    /\ failed = 0
    /\ records = << >>
    /\ recordInfo = None
    /\ tasks = [t \in TaskIds |-> IdleTask]
    /\ HttpOff
    /\ resp = NoResp
    /\ arg = NoCall
    /\ ret = NoResp

NextTasks ==
    \/ \E t \in TaskIds, params \in TaskCreateInputs :
          TaskBulkEnter(t, "cf_dns_bulk_create", params)
    \/ \E t \in TaskIds, params \in TaskUpdateInputs :
          TaskBulkEnter(t, "cf_dns_bulk_update", params)
    \/ \E t \in TaskIds : TaskBulkIssue(t)
    \/ \E t \in TaskIds : TaskBulkSettle(t)
    \/ \E t \in TaskIds : TaskBulkReturn(t)
    \/ \E t \in TaskIds, params \in TaskSingleInputs : TaskUpdateEnter(t, params)
    \/ \E t \in TaskIds : TaskUpdateSettle(t)
    \/ SetApiToken

SpecTasks == InitTasks /\ [][NextTasks]_vars

(***************************************************************************)
(* C27: the client handle is initialised at most once.                     *)
(***************************************************************************)
\* Task t's call of getClient has returned a handle.
HoldsHandle(t) == tasks[t].client # "null"

\* The step is a call of getClient by task t that throws for the missing
\* token.
GetClientFails(t) ==
    /\ tasks[t].pc = "idle"
    /\ tasks'[t].pc = "done"
    /\ tasks'[t].resp = ErrorResult(MissingTokenError)

\* C27: over any interleaving of requests every successful getClient call
\* returns the handle the first successful call constructed, the holder is
\* never replaced once it is set, and a call that fails for the missing API
\* token leaves the holder empty, so that a later call initialises it.
C27_ClientInitialisedOnce ==
    /\ [](\A t \in TaskIds : HoldsHandle(t) => tasks[t].client = client)
    /\ [][client # "null" => client' = client]_vars
    /\ [][\A t \in TaskIds : GetClientFails(t) => client = "null" /\ client' = "null"]_vars
    /\ [](client = "null" /\ apiToken => ~getClientThrows /\ getClientBy("1") # "null")

\* Task 2's call constructed the handle and task 1's later call, made while
\* task 2 awaits the Directory, returned that same handle.
C27_Witness ==
    /\ client = "handle2"
    /\ tasks[1].client = "handle2"
    /\ tasks[2].client = "handle2"
    /\ tasks[2].pc = "await"
    /\ tasks[1].pc = "await"

(***************************************************************************)
(* C29: interleaved invocations do not interfere.                          *)
(***************************************************************************)
\* Task t's bulk invocation has returned its result.
TaskServed(t) ==
    /\ tasks[t].pc = "done"
    /\ tasks[t].req.tool \in BulkTools
    /\ Has(tasks[t].resp, "json")

\* What the Directory answered to task t's call for its operation idx.
TaskOutcome(t, idx) ==
    LET call == CHOOSE c \in Range(calls) :
                    c.task = t /\ Has(c, "index") /\ c.index = idx
    IN  (CHOOSE a \in Range(settled) : a.seq = call.seq).outcome

\* The result task t returned is that of its own batch alone.
OwnResult(t) ==
    LET tool == tasks[t].req.tool
        recs == tasks[t].req.params.records
        out == tasks[t].resp.json
        good == {k \in DOMAIN out.results : out.results[k].success}
        done == IF tool = "cf_dns_bulk_create" THEN out.created ELSE out.updated
    IN  /\ Len(out.results) = Len(recs)
        /\ \A k \in DOMAIN out.results :
              /\ k \in DOMAIN recs
              /\ out.results[k].index = k - 1
              /\ Describes(out.results[k], tool, recs[k])
              /\ out.results[k].success = (TaskOutcome(t, k - 1) = "ok")
        /\ done = Cardinality(good)
        /\ out.failed = Len(out.results) - Cardinality(good)
        /\ out.total = Len(recs)

\* C29: when two invocations interleave at their Directory calls, each bulk
\* invocation's results list holds its own operations in its own input
\* order, with the outcomes of its own calls, its counters count its own
\* outcomes, and the invocations share only the client handle.
C29_InvocationsDoNotInterfere ==
    \A t \in TaskIds :
        /\ tasks[t].pc \in {"loop", "await"} => Len(tasks[t].results) = tasks[t].i
        /\ TaskServed(t) => OwnResult(t)
        /\ HoldsHandle(t) => tasks[t].client = client

\* A bulk create and a bulk update of two operations each have both
\* returned; their calls alternated, task 2's first call settled while task
\* 1's was in flight, and each batch had one failure of its own.
C29_Witness ==
    /\ TaskServed(1) /\ TaskServed(2)
    /\ tasks[1].req.tool = "cf_dns_bulk_create"
    /\ tasks[2].req.tool = "cf_dns_bulk_update"
    /\ Len(tasks[1].req.params.records) = 2
    /\ Len(tasks[2].req.params.records) = 2
    /\ Len(calls) = 4
    /\ calls[1].task = 1 /\ calls[2].task = 2 /\ calls[3].task = 2 /\ calls[4].task = 1
    /\ settled[1].seq = 2
    /\ tasks[1].resp.json.failed = 1 /\ tasks[1].resp.json.created = 1
    /\ tasks[2].resp.json.failed = 1 /\ tasks[2].resp.json.updated = 1

(***************************************************************************)
(* HTTP transport: services/cloudflare.ts lines 76-151 and runHttp.        *)
(* Strings are sequences of characters, so that trim, the header pattern   *)
(* and the comparison are computed.  An environment variable is Unset or   *)
(* [set |-> TRUE, value |-> string]; a null string holder is << >>.        *)
(***************************************************************************)
EnvValue(str) == [set |-> TRUE, value |-> str]

\* process.env.X || "" (line 80).
OrEmpty(env) == IF env.set THEN env.value ELSE << >>

Blank(ch) == ch = " "

RECURSIVE TrimStart(_)
TrimStart(str) ==
    IF str # << >> /\ Blank(Head(str)) THEN TrimStart(Tail(str)) ELSE str

RECURSIVE TrimEnd(_)
TrimEnd(str) ==
    IF str # << >> /\ Blank(str[Len(str)])
    THEN TrimEnd(SubSeq(str, 1, Len(str) - 1)) ELSE str

\* String.prototype.trim.
Trim(str) == TrimEnd(TrimStart(str))

\* The value getBearerToken returns, which it also caches: null (<< >>)
\* when the trimmed variable is empty (lines 79-82).
getBearerToken ==
    IF bearerToken.checked THEN bearerToken.token
    ELSE Trim(OrEmpty(mcpApiToken))

\* The lower case of a character of the alphabet of headers used here.
Lower(ch) == IF ch = "B" THEN "b" ELSE ch

LowerStr(str) == [k \in DOMAIN str |-> Lower(str[k])]

Bearer == <<"B", "e", "a", "r", "e", "r">>

\* The number of blanks str begins with.
RECURSIVE LeadingBlanks(_)
LeadingBlanks(str) ==
    IF str # << >> /\ Blank(Head(str)) THEN 1 + LeadingBlanks(Tail(str)) ELSE 0

\* authHeader.match(/^Bearer\s+(.+)$/i) (line 95): [matched |-> FALSE], or
\* the group.  \s+ takes the blanks after the scheme, and gives the last one
\* back to the group when nothing else follows them.
MatchBearer(header) ==
    IF Len(header) < Len(Bearer) \/
       LowerStr(SubSeq(header, 1, Len(Bearer))) # LowerStr(Bearer)
    THEN [matched |-> FALSE]
    ELSE LET rest == SubSeq(header, Len(Bearer) + 1, Len(header))
             n == LeadingBlanks(rest)
         IN  IF n = 0 \/ Len(rest) < 2 THEN [matched |-> FALSE]
             ELSE IF n < Len(rest)
                  THEN [matched |-> TRUE, group |-> SubSeq(rest, n + 1, Len(rest))]
                  ELSE [matched |-> TRUE, group |-> <<" ">>]

\* Mutant: any two strings compare equal.
safeCompareAlways(a, b) == TRUE

\* safeCompare (lines 144-151): equal lengths and equal bytes.
safeCompare(a, b) == Len(a) = Len(b) /\ a = b

\* validateBearerToken (lines 90-100): "null", "false" or "true".
validateBearerToken(request) ==
    LET expected == getBearerToken
    IN  IF expected = << >> THEN "null"
        ELSE IF ~Has(request, "authorization") \/ request.authorization = << >>
        THEN "false"
        ELSE LET match == MatchBearer(request.authorization)
             IN  IF ~match.matched THEN "false"
                 ELSE IF safeCompare(match.group, expected) THEN "true" ELSE "false"

\* The keys randomBytes(32).toString("hex") may give (line 116).
GeneratedKeys == {[k \in 1..GeneratedKeyLen |-> ch] : ch \in {"a", "b"}}

\* The keys getOrCreateApiKey may return and cache (lines 106-123).
ApiKeys ==
    IF apiKey # << >> THEN {apiKey}
    ELSE IF apiKeyEnv.set /\ apiKeyEnv.value # << >> /\
            Len(apiKeyEnv.value) >= MinApiKeyLen
    THEN {apiKeyEnv.value}
    ELSE GeneratedKeys

\* headerValue || queryValue (line 136): [given |-> FALSE] when both are
\* absent or empty.
ProvidedKey(request) ==
    IF Has(request, "xApiKey") /\ request.xApiKey # << >>
    THEN [given |-> TRUE, key |-> request.xApiKey]
    ELSE IF Has(request, "apiKeyQuery") /\ request.apiKeyQuery # << >>
    THEN [given |-> TRUE, key |-> request.apiKeyQuery]
    ELSE [given |-> FALSE]

\* validateApiKey (lines 131-140) against the key getOrCreateApiKey gave.
validateApiKey(request, expected) ==
    /\ ProvidedKey(request).given
    /\ safeCompare(ProvidedKey(request).key, expected)

\* The middleware of app.use("/*") (runHttp, lines 54-65): the request goes
\* on to its route unless the bearer check says false.
MiddlewarePasses(request) == validateBearerToken(request) # "false"

\* A response: its status and the route handler the request reached.
Response(status, handler) == [status |-> status, handler |-> handler]

\* What every request leaves behind: the bearer token is cached by the
\* middleware's call of getBearerToken.
HttpHandled(request) ==
    /\ httpReq' = request
    /\ bearerToken' = [checked |-> TRUE, token |-> getBearerToken]
    /\ UNCHANGED <<mcpApiToken, apiKeyEnv>>
    /\ UNCHANGED <<apiToken, taskVars, client, dir, calls, inflight, settled, pc,
                   req, bulkLocals, listLocals, writeLocals, resp, pureVars>>

\* GET /health (lines 54-68).
HttpHealth(request) ==
    /\ request.route = "GET /health"
    /\ HttpHandled(request)
    /\ apiKey' = apiKey
    /\ httpResp' = IF MiddlewarePasses(request)
                   THEN Response(200, "health")
                   ELSE Response(401, "none")

\* POST /mcp (lines 54-65, 71-118): the API key is asked for when no bearer
\* token is configured; a request that passes is handed to a fresh server,
\* or answered 501 when the runtime gives no Node request.
HttpMcp(request) ==
    /\ request.route = "POST /mcp"
    /\ HttpHandled(request)
    /\ IF ~MiddlewarePasses(request)
       THEN /\ apiKey' = apiKey
            /\ httpResp' = Response(401, "none")
       ELSE IF getBearerToken = << >>
       THEN \E expected \in ApiKeys :
              /\ apiKey' = expected
              /\ IF validateApiKey(request, expected)
                 THEN \E status \in {200, 501} : httpResp' = Response(status, "mcp")
                 ELSE httpResp' = Response(401, "mcp")
       ELSE /\ apiKey' = apiKey
            /\ \E status \in {200, 501} : httpResp' = Response(status, "mcp")

\* A request for which no route is registered: the middleware runs, then
\* Hono answers 404.
HttpNoRoute(request) ==
    /\ request.route = "GET /mcp"
    /\ HttpHandled(request)
    /\ apiKey' = apiKey
    /\ httpResp' = IF MiddlewarePasses(request)
                   THEN Response(404, "none")
                   ELSE Response(401, "none")

Blanks(n) == [k \in 1..n |-> " "]

Credentials == {<<"x">>, <<"y">>}

Schemes == {Bearer, <<"b", "e", "a", "r", "e", "r">>, <<"B", "a", "s", "i", "c">>}

\* Authorization headers: a scheme, blanks and a credential, or the scheme
\* alone.  The HTTP parser has removed the blanks around a header's value.
AuthorizationHeaders ==
    {scheme \o Blanks(n) \o cred :
        scheme \in Schemes, n \in 0..MaxBlank, cred \in Credentials}
    \cup {Bearer}

EnvKeys ==
    {[k \in 1..n |-> "k"] : n \in {MinApiKeyLen - 1, MinApiKeyLen}}

GivenKeys == {[k \in 1..MinApiKeyLen |-> "k"], [k \in 1..GeneratedKeyLen |-> "a"]}

Routes == {"GET /health", "POST /mcp", "GET /mcp"}

\* The X-API-Key header and the api_key query value of a request to
\* POST /mcp: each absent or a key, the header also empty.
KeyFields ==
    {Merge(h, q) :
        h \in {Empty} \cup {[xApiKey |-> v] : v \in GivenKeys \cup {<< >>}},
        q \in {Empty} \cup {[apiKeyQuery |-> v] : v \in GivenKeys}}

\* Requests: a route, the Authorization header absent or one of those
\* above, and the key fields for POST /mcp.
HttpRequests ==
    {r \in {Merge(Merge([route |-> route], a), k) :
                route \in Routes,
                a \in {Empty} \cup {[authorization |-> v] : v \in AuthorizationHeaders},
                k \in KeyFields} :
        r.route = "POST /mcp" \/ DOMAIN r \cap {"xApiKey", "apiKeyQuery"} = {}}

McpApiTokens ==
    {Unset} \cup
    {EnvValue(v) : v \in {<< >>, <<" ">>, <<"x">>, <<" ", "x", " ">>}}

InitHttp ==
    /\ apiToken = TRUE
    /\ client = "null"
    /\ dir = InitialZone
    /\ calls = << >>
    /\ inflight = {}
    /\ settled = << >>
    /\ pc = "idle"
    /\ req = NoReq
    /\ i = 0
    /\ results = << >>
    /\ created = 0
    /\ updated = 0
    /\ failed = 0
    /\ records = << >>
    /\ recordInfo = None
    /\ tasks = NoTasks
    /\ mcpApiToken \in McpApiTokens
    /\ apiKeyEnv \in {Unset} \cup {EnvValue(v) : v \in EnvKeys}
    /\ bearerToken = [checked |-> FALSE]
    /\ apiKey = << >>
    /\ httpReq = [route |-> None]
    /\ httpResp = [pending |-> TRUE]
    /\ resp = NoResp
    /\ arg = NoCall
    /\ ret = NoResp

NextHttp ==
    \/ \E request \in HttpRequests : HttpHealth(request)
    \/ \E request \in HttpRequests : HttpMcp(request)
    \/ \E request \in HttpRequests : HttpNoRoute(request)

SpecHttp == InitHttp /\ [][NextHttp]_vars

(***************************************************************************)
(* C23: the gate of the HTTP transport.                                    *)
(***************************************************************************)
\* A request has been answered.
Responded == ~Has(httpResp, "pending")

\* MCP_API_TOKEN is set to a non-empty value.
TokenNonEmpty == mcpApiToken.set /\ mcpApiToken.value # << >>

\* The header is the scheme Bearer in any letter case, one or more blanks
\* and the credential.
IsBearerOf(header, credential) ==
    \E n \in 1..Len(header) :
        /\ Len(header) = Len(Bearer) + n + Len(credential)
        /\ LowerStr(SubSeq(header, 1, Len(Bearer))) = LowerStr(Bearer)
        /\ header = SubSeq(header, 1, Len(Bearer)) \o Blanks(n) \o credential

\* The request's Authorization header is 'Bearer <that token>'.
BearsToken ==
    /\ Has(httpReq, "authorization")
    /\ IsBearerOf(httpReq.authorization, mcpApiToken.value)

\* The X-API-Key header or the api_key query value equals the API key.
BearsKey ==
    \/ Has(httpReq, "xApiKey") /\ httpReq.xApiKey = apiKey
    \/ Has(httpReq, "apiKeyQuery") /\ httpReq.apiKeyQuery = apiKey

Stripped(str) ==
    LET solid == {k \in DOMAIN str : ~Blank(str[k])}
    IN  IF solid = {} THEN << >>
        ELSE SubSeq(str, CHOOSE k \in solid : \A m \in solid : k <= m,
                         CHOOSE k \in solid : \A m \in solid : k >= m)

\* MCP_API_TOKEN is set and is more than blanks.
TokenSolid == mcpApiToken.set /\ Stripped(mcpApiToken.value) # << >>

\* The request's Authorization header is Bearer and the token without the
\* blanks at its ends.
BearsStrippedToken ==
    /\ Has(httpReq, "authorization")
    /\ IsBearerOf(httpReq.authorization, Stripped(mcpApiToken.value))

====
